---- MODULE Spec2Model ----
(***************************************************************************)
(* Model of the ESG report analysis pipeline of greenwashing_detective:    *)
(*   - src/src/recovery_utils.py : stage artifact checks and resume point  *)
(*   - src/app.py                : the /api/query_company request handler, *)
(*                                 the ACTIVE_PROCESSING registry and the   *)
(*                                 two stage-2 worker threads               *)
(***************************************************************************)
EXTENDS Integers, Sequences, FiniteSets, TLC

(***************************************************************************)
(* Bounds                                                                  *)
(***************************************************************************)
\* largest number of elements of a JSON container in an artifact file
MaxLen == 2

\* number of requests the two request threads handle together in a behaviour
MaxRequests == 2

\* number of requests a single request thread handles in a behaviour
MaxRequestsOne == 5

\* largest number of targets whose os.remove raises in one cleanup_temp_files
MaxRemoveErrors == 1

\* number of successive calls of the Resume Planner on unchanged artifacts
MaxCalls == 2

\* number of mark_processing_start calls in a behaviour of the registry
MaxStarts == 4

\* number of requests in a behaviour with one thread that only asks for the
\* state of the job
MaxRequestsPoll == 3

(***************************************************************************)
(* Stages and artifact files                                               *)
(***************************************************************************)
\* recovery_utils.determine_resume_point: stages = ['stage1', ..., 'stage6']
stages == <<"stage1", "stage2", "stage3", "stage4", "stage5", "stage6">>

StageSet == {stages[i] : i \in 1..Len(stages)}

FileStages == {"stage1", "stage2", "stage3", "stage4", "stage5"}

JsonStages == {"stage2", "stage3", "stage4", "stage5"}

\* position of a stage name in the list stages (0 when it is not a stage)
StageIdx(s) == IF s \in StageSet THEN CHOOSE i \in 1..Len(stages) : stages[i] = s ELSE 0

\* A file on disk: whether it exists, whether json.load accepts it, the
\* Python type of the loaded value and its len().
Absent == [exists |-> FALSE, parseable |-> FALSE, type |-> "none", len |-> 0]

Garbage == [exists |-> TRUE, parseable |-> FALSE, type |-> "none", len |-> 0]

\* the report PDF under the name cleanup_temp_files targets:
\* {year}_{company_code}_{company_name}_永續報告書.pdf
Pdf == [exists |-> TRUE, parseable |-> FALSE, type |-> "pdf", len |-> 0]

\* a PDF under another name that the glob {year}_{company_code}_*.pdf matches
PdfOther == [exists |-> TRUE, parseable |-> FALSE, type |-> "pdf_other", len |-> 0]

Json(t, n) == [exists |-> TRUE, parseable |-> TRUE, type |-> t, len |-> n]

\* every content a JSON artifact file can have
JsonFiles ==
    {Absent, Garbage, Json("scalar", 0)}
        \cup {Json(t, n) : t \in {"list", "dict"}, n \in 0..MaxLen}

PdfFiles == {Absent, Pdf, PdfOther}

FileSystems ==
    {f \in [FileStages -> JsonFiles \cup PdfFiles] :
        /\ f["stage1"] \in PdfFiles
        /\ \A s \in JsonStages : f[s] \in JsonFiles}

NoFiles == [s \in FileStages |-> Absent]

(***************************************************************************)
(* recovery_utils.py                                                       *)
(***************************************************************************)
\* check_pdf_exists: glob of {year}_{company_code}_*.pdf has a match
check_pdf_exists(fs) == fs["stage1"].exists

\* open and json.load in the try block of check_json_valid: the exception
\* raised on the file, "none" when the value is loaded
json_load_raises(file) == IF file.parseable THEN "none" ELSE "JSONDecodeError"

\* variant: a try block without except clauses
NothingCaught == {}

\* the except clauses of check_json_valid: json.JSONDecodeError, Exception
check_json_valid_catches == {"JSONDecodeError", "Exception"}

\* an exception leaves check_json_valid: os.path.exists raises nothing, and
\* what the try block raises gets out only when no except clause matches
check_json_valid_raises(file) ==
    /\ file.exists
    /\ json_load_raises(file) \notin ({"none"} \cup check_json_valid_catches)

\* check_json_valid: the file exists, json.load succeeds and the value is a
\* non-empty list or a non-empty dict
check_json_valid(file) ==
    IF ~file.exists THEN FALSE
    ELSE IF ~file.parseable THEN FALSE
    ELSE IF file.type = "list" /\ file.len > 0 THEN TRUE
    ELSE IF file.type = "dict" /\ file.len > 0 THEN TRUE
    ELSE FALSE

\* variant: stage6 is reported complete when the five files are in place
check_stage_completion_by_files(fs, stage) ==
    IF stage = "stage1" THEN check_pdf_exists(fs)
    ELSE IF stage \in JsonStages THEN check_json_valid(fs[stage])
    ELSE IF stage = "stage6"
      THEN check_pdf_exists(fs) /\ \A s \in JsonStages : check_json_valid(fs[s])
    ELSE FALSE

\* check_stage_completion: the first component of the returned tuple
check_stage_completion(fs, stage) ==
    IF stage = "stage1" THEN check_pdf_exists(fs)
    ELSE IF stage \in JsonStages THEN check_json_valid(fs[stage])
    ELSE IF stage = "stage6" THEN FALSE
    ELSE FALSE

\* variant: the scan of the stages stops at the first incomplete one
RECURSIVE CompletedUntilGap(_, _)
CompletedUntilGap(fs, n) ==
    IF n = 0 THEN <<>>
    ELSE LET before == CompletedUntilGap(fs, n - 1)
         IN  IF Len(before) = n - 1 /\ check_stage_completion(fs, stages[n])
             THEN Append(before, stages[n])
             ELSE before

\* first loop of determine_resume_point: completed_stages, in list order
RECURSIVE CompletedUpTo(_, _)
CompletedUpTo(fs, n) ==
    IF n = 0 THEN <<>>
    ELSE IF check_stage_completion(fs, stages[n])
         THEN Append(CompletedUpTo(fs, n - 1), stages[n])
         ELSE CompletedUpTo(fs, n - 1)

SeqToSet(q) == {q[i] : i \in 1..Len(q)}

\* variant: resume after the last completed stage
AfterLastIn(completed, n) ==
    IF completed = <<>> THEN stages[n]
    ELSE LET last == StageIdx(completed[Len(completed)])
         IN  IF last >= Len(stages) THEN "stage6" ELSE stages[last + 1]

\* second loop of determine_resume_point: the first stage that is not in
\* completed_stages; the for-else gives 'stage6' when there is none
RECURSIVE FirstNotIn(_, _)
FirstNotIn(completed, n) ==
    IF n > Len(stages) THEN "stage6"
    ELSE IF stages[n] \notin SeqToSet(completed) THEN stages[n]
    ELSE FirstNotIn(completed, n + 1)

\* variant: a stored status that names a stage is the resume point
determine_resume_point_by_status(fs, current_status) ==
    LET completed == CompletedUpTo(fs, Len(stages))
    IN  [resume_from      |-> IF current_status \in StageSet THEN current_status
                              ELSE FirstNotIn(completed, 1),
         completed_stages |-> completed,
         stage_details    |-> [s \in StageSet |-> check_stage_completion(fs, s)]]

determine_resume_point(fs, current_status) ==
    LET completed == CompletedUpTo(fs, Len(stages))
    IN  [resume_from      |-> FirstNotIn(completed, 1),
         completed_stages |-> completed,
         stage_details    |-> [s \in StageSet |-> check_stage_completion(fs, s)]]

\* an exception leaves determine_resume_point: it calls check_json_valid for
\* the files of stage2..stage5 and has no try block of its own
determine_resume_point_raises(fs) ==
    \E s \in JsonStages : check_json_valid_raises(fs[s])

(***************************************************************************)
(* State                                                                   *)
(***************************************************************************)
\* the request-handling threads of the Flask process
Requests == {"r1", "r2"}

\* esg_id of the one (year, company_code) the requests are about
esg_id == "20242330"

VARIABLES
    files,              \* temp_data/* artifacts of the job, by producing stage
    db_status,          \* company.analysis_status of the job ("none": no row)
    ACTIVE_PROCESSING,  \* app.ACTIVE_PROCESSING: esg_id -> start timestamp
    workers,            \* request threads that the server hands requests to
    budget,             \* number of requests still to arrive
    now,                \* the clock time.time() reads: it advances with each
                        \* request that arrives
    pc,                 \* position of each request thread in query_company
    auto_fetch,         \* request parameter auto_fetch
    result_status,      \* result['status'] read at the top of the handler
    resume_from,        \* local resume_from
    analysis_result,    \* local analysis_result: "None", "placeholder", "result"
    wordcloud_thread,   \* WordCloudThread: "none", "running", how it ended, "detached"
    ai_thread,          \* AIAnalysisThread: "none", "running", "done", "raised"
    response,           \* 'status' of the JSON the request returned
    persisted,          \* statuses written by update_analysis_status in this run
    ran,                \* stages whose work this run has started, in order
    ended,              \* stages whose work this run has started and seen end
    prev_ok,            \* the work of the stage this run executed last ended well
    failures,           \* collaborators that failed or raised in this run
    undeleted,          \* artifacts whose os.remove raised in this run
    plan,               \* last result of a direct determine_resume_point call
    job,                \* esg_id a thread passes to the registry functions
    analyzer,           \* one call of ESGReportAnalyzer.run and its output file
    verifier,           \* the P2 and P3 JSON files and the last call of
                        \* verify_evidence_sources
    user_sessions,      \* app_line.user_sessions: user_id -> session dict
    chat                \* the last LINE event handled: the event, the reply
                        \* sent, user_sessions before it, and what each user
                        \* has locked and picked so far

vars == <<files, db_status, ACTIVE_PROCESSING, workers, budget, now, pc, auto_fetch,
          result_status, resume_from, analysis_result, wordcloud_thread,
          ai_thread, response, persisted, ran, ended, prev_ok, failures,
          undeleted, plan, job, analyzer, verifier, user_sessions, chat>>

shared == <<files, db_status, ACTIVE_PROCESSING>>

server == <<workers, budget, now>>

locals == <<auto_fetch, result_status, resume_from, analysis_result>>

threads == <<wordcloud_thread, ai_thread>>

history == <<persisted, ran, ended, prev_ok, failures, undeleted>>

\* the state of the units that are modelled on their own
units == <<analyzer, verifier, user_sessions, chat>>

aside == <<plan, job, units>>

\* ACTIVE_PROCESSING = {}
EmptyRegistry == [id \in {} |-> 0]

NoPlan == [called |-> FALSE, fs |-> NoFiles, current_status |-> "none",
           raised |-> FALSE, n |-> 0,
           result |-> determine_resume_point(NoFiles, "none")]

\* query_company: PROCESSING_STATES
PROCESSING_STATES == {"processing", "stage1", "stage2", "stage3", "stage4", "stage5", "stage6"}

\* query_company: PROCESSING_STATES_FOR_RESUME
PROCESSING_STATES_FOR_RESUME == {"failed", "stage1", "stage2", "stage3", "stage4", "stage5", "stage6"}

\* positions between mark_processing_start and the end of the run: its
\* mark_processing_end, or its return statement when it returns without one
LoopPCs == {"stage1", "s1_run", "s1_failed", "stage2", "join_wc", "join_ai",
            "stage3", "s3_run", "stage4", "s4_run", "stage5", "s5_run",
            "stage6", "s6_load", "s6_insert", "p3_missing", "insert_failed",
            "commit", "readback", "cleanup", "finish", "except", "release"}

(***************************************************************************)
(* ESGReportAnalyzer (src/src/gemini_api.py): data                         *)
(***************************************************************************)
\* the largest number of items in a reply of the model
MaxItems == 4

ABNORMAL_THRESHOLD == 2

DEFAULT_MODEL == "models/gemini-2.5-flash"

FALLBACK_MODEL == "models/gemini-3-flash-preview"

\* run: retry_configs; the temperature is written in tenths
retry_configs ==
    << [model |-> DEFAULT_MODEL, temperature |-> 1],
       [model |-> DEFAULT_MODEL, temperature |-> 2],
       [model |-> FALLBACK_MODEL, temperature |-> 1] >>

\* a parsed reply: n items with u distinct sasb_topic values; enc tells
\* whether every string of it can be encoded as UTF-8 (json.loads accepts
\* the escape of a lone surrogate, open(..., encoding='utf-8') cannot write
\* it); by is the attempt that produced it
ParsedData(n, u, enc, by) == [n |-> n, u |-> u, enc |-> enc, by |-> by]

NoData == ParsedData(0, 0, TRUE, 0)

\* what one attempt can get: "raise" when _call_gemini_api,
\* _parse_json_with_recovery or _is_abnormal_output raises, else the parsed
\* list
Replies ==
    {[kind |-> "raise", n |-> 0, u |-> 0, enc |-> TRUE]} \cup
    {[kind |-> "parsed", n |-> n, u |-> u, enc |-> e] :
        n \in 0..MaxItems, u \in 0..MaxItems, e \in BOOLEAN}

\* a list of n items has at least one topic and at most n of them, and the
\* empty list has no string that could fail to encode
ReplyIsList(reply) ==
    reply.kind = "parsed" =>
        IF reply.n = 0 THEN reply.u = 0 /\ reply.enc ELSE reply.u \in 1..reply.n

\* _is_abnormal_output, first component of its result
_is_abnormal_output(parsed_data) ==
    IF parsed_data.n = 0 THEN FALSE
    ELSE parsed_data.n > parsed_data.u * ABNORMAL_THRESHOLD

\* the file at output_path
NoOutput == [state |-> "absent", data |-> NoData]

\* what a json.dump that raised part-way leaves on disk
Truncated == [state |-> "truncated", data |-> NoData]

Saved(data) == [state |-> "json", data |-> data]

\* best_result = None
NoBest == [set |-> FALSE, data |-> NoData]

\* before run is called: no attempt made; trace records, for each attempt,
\* its configuration, what its reply was, the number of items of a parsed
\* reply and what became of the write
NoRun == [state |-> "idle", trace |-> <<>>, best_result |-> NoBest,
          output |-> NoOutput]

(***************************************************************************)
(* verify_evidence_sources (src/src/pplx_api.py): data                     *)
(***************************************************************************)
\* the largest number of items in a P2 JSON
MaxP2Items == 2

\* the number of calls of verify_evidence_sources that are followed
MaxVerifyCalls == 2

\* an item of the P2 JSON, by what the loop meets in it: no
\* external_evidence_url (missing, empty or blank), a URL that
\* verify_single_url finds valid, an invalid URL for which
\* find_alternative_url returns a URL, an invalid URL for which it returns
\* None, and an item on which a step raises (a URL that is null, an item
\* that is not an object)
ItemKinds == {"no_url", "valid", "dead_found", "dead_lost", "throws"}

RECURSIVE SeqsUpTo(_, _)
SeqsUpTo(S, n) ==
    IF n = 0 THEN {<<>>}
    ELSE LET shorter == SeqsUpTo(S, n - 1)
         IN shorter \cup {Append(q, x) : q \in {t \in shorter : Len(t) = n - 1}, x \in S}

NoJson == [state |-> "absent", items |-> <<>>]

\* a file that json.load cannot read, such as one cut short by a failed write
BrokenJson == [state |-> "broken", items |-> <<>>]

JsonList(items) == [state |-> "list", items |-> items]

\* item.get("external_evidence_url", "").strip() of a P2 item
StrippedUrl(kind) == IF kind = "no_url" THEN "" ELSE "original"

\* the item as it is appended to processed_data
Verified(url) == [external_evidence_url |-> url, is_verified |-> "True"]

\* the item as it was read: is_verified not set
Unverified(kind) == [external_evidence_url |-> StrippedUrl(kind), is_verified |-> ""]

NoResult == [success |-> FALSE, skipped |-> FALSE, error |-> "none",
             statistics |-> FALSE, processed_items |-> 0, verified_count |-> 0,
             updated_count |-> 0, failed_count |-> 0, raised |-> FALSE]

NoVerify == [p2 |-> NoJson, p3 |-> NoJson, calls |-> 0,
             before |-> [p2 |-> NoJson, p3 |-> NoJson, force_regenerate |-> FALSE],
             threw |-> FALSE, called |-> FALSE,
             result |-> NoResult]

(***************************************************************************)
(* LINE bot (src/app_line.py): data                                        *)
(***************************************************************************)
Users == {"u1", "u2"}

\* company codes the database knows, and a well-formed code it does not know
Companies == {"1102", "2330"}

UnknownCode == "9999"

CompanyName(code) == IF code = "1102" THEN "Asia Cement" ELSE "TSMC"

\* years a YEAR=<n> postback can carry; 0 is a year that Python takes for
\* false
Years == {0, 2023, 2024}

\* message texts: the two help texts, texts that is_trigger_a accepts ("A",
\* "a", " A " and a sentence holding the trigger phrase), 4-digit codes, a
\* company name of two or more characters and a one-character text
PurposeText == "PURPOSE"
FlowText == "FLOW"
TriggerSentence == "PLEASE LOCK QUERY"
NameText == "COMPANY NAME"
Texts == {PurposeText, FlowText, "A", "a", " A ", TriggerSentence, "?", NameText,
          UnknownCode} \cup Companies

\* (text or "").strip().replace(" ", "")
normalize(text) ==
    IF text = " A " THEN "A"
    ELSE IF text = TriggerSentence THEN "PLEASELOCKQUERY"
    ELSE IF text = NameText THEN "COMPANYNAME"
    ELSE text

\* the trigger phrases are substrings of norm, or norm.upper() is "A"
is_trigger_a(norm) == norm \in {"PLEASELOCKQUERY", "A", "a"}

\* re.fullmatch(r"\d{4}", norm)
IsCode4(norm) == norm \in Companies \cup {UnknownCode}

\* four digits, or len(norm) >= 2
looks_like_company_input(norm) ==
    IsCode4(norm) \/ norm \in {"PLEASELOCKQUERY", "COMPANYNAME", PurposeText, FlowText}

\* postback data: the two actions, YEAR=<n>, a YEAR= that int() rejects and
\* data of no known form
PostbackData ==
    {[kind |-> k, year |-> 0] : k \in {"SHOW_YEARS", "DASHBOARD", "BAD_YEAR", "OTHER"}}
    \cup {[kind |-> "YEAR", year |-> y] : y \in Years}

\* {"state": "IDLE"}, the default of user_sessions.get
DefaultSession == [state |-> "IDLE"]

\* a dict display {**first, **second}: a key of second replaces the same key
\* of first
DictMerge(first, second) ==
    [k \in DOMAIN first \cup DOMAIN second |->
        IF k \in DOMAIN second THEN second[k] ELSE first[k]]

\* user_sessions.get(user_id, {"state": "IDLE"})
SessionOf(sessions, user_id) ==
    IF user_id \in DOMAIN sessions THEN sessions[user_id] ELSE DefaultSession

\* user_sessions[user_id] = sess
Store(sessions, user_id, sess) ==
    [u \in DOMAIN sessions \cup {user_id} |->
        IF u = user_id THEN sess ELSE sessions[u]]

NoSessions == [u \in {} |-> DefaultSession]

NoEvent == [type |-> "none", user |-> "u1", text |-> "", data |-> [kind |-> "OTHER", year |-> 0]]

NoReply == [kind |-> "none", year |-> 0, code |-> ""]

NoChat == [event |-> NoEvent, reply |-> NoReply, before |-> NoSessions,
           locked |-> [u \in Users |-> ""], picked |-> [u \in Users |-> -1]]

InitCommon ==
    /\ analyzer = NoRun
    /\ verifier = NoVerify
    /\ user_sessions = NoSessions
    /\ chat = NoChat
    /\ db_status = "none"
    /\ ACTIVE_PROCESSING = EmptyRegistry
    /\ now = 0
    /\ job = [r \in Requests |-> "none"]
    /\ pc = [r \in Requests |-> "idle"]
    /\ auto_fetch = [r \in Requests |-> FALSE]
    /\ result_status = [r \in Requests |-> "none"]
    /\ resume_from = [r \in Requests |-> "none"]
    /\ analysis_result = [r \in Requests |-> "None"]
    /\ wordcloud_thread = [r \in Requests |-> "none"]
    /\ ai_thread = [r \in Requests |-> "none"]
    /\ response = [r \in Requests |-> "none"]
    /\ persisted = [r \in Requests |-> <<>>]
    /\ ran = [r \in Requests |-> <<>>]
    /\ ended = [r \in Requests |-> {}]
    /\ prev_ok = [r \in Requests |-> TRUE]
    /\ failures = [r \in Requests |-> {}]
    /\ undeleted = [r \in Requests |-> {}]
    /\ plan = NoPlan

\* a fresh process: no row for the job, no artifact, an empty registry
Init ==
    /\ InitCommon
    /\ files = NoFiles
    /\ workers = Requests
    /\ budget = MaxRequests

(***************************************************************************)
(* Calls of the Resume Planner on an arbitrary artifact directory          *)
(***************************************************************************)
PlanStatuses == {"failed", "stage3", "bogus"}

InitPlan ==
    /\ InitCommon
    /\ files \in FileSystems
    /\ workers = {}
    /\ budget = 0

\* variant: the planner removes the files it finds invalid
PlanCallRepairs(st) ==
    /\ plan.n < MaxCalls
    /\ plan' = [called |-> TRUE, fs |-> files, current_status |-> st,
                raised |-> determine_resume_point_raises(files),
                n |-> plan.n + 1,
                result |-> determine_resume_point(files, st)]
    /\ files' = [s \in FileStages |->
                    IF s \in JsonStages /\ ~check_json_valid(files[s])
                      THEN Absent ELSE files[s]]
    /\ UNCHANGED <<db_status, ACTIVE_PROCESSING, server, pc, locals, threads,
                   response, history, job, units>>

\* print_recovery_status / determine_resume_point on the current files; n
\* counts the calls made since the files last changed
PlanCall(st) ==
    /\ plan.n < MaxCalls
    /\ plan' = [called |-> TRUE, fs |-> files, current_status |-> st,
                raised |-> determine_resume_point_raises(files),
                n |-> plan.n + 1,
                result |-> determine_resume_point(files, st)]
    /\ UNCHANGED <<shared, server, pc, locals, threads, response, history, job, units>>

\* an artifact of the job is deleted from disk
DeleteArtifact(s) ==
    /\ files[s].exists
    /\ files' = [files EXCEPT ![s] = Absent]
    /\ plan' = NoPlan
    /\ UNCHANGED <<db_status, ACTIVE_PROCESSING, server, pc, locals, threads,
                   response, history, job, units>>

NextPlan ==
    \/ \E st \in PlanStatuses : PlanCall(st)
    \/ \E s \in FileStages : DeleteArtifact(s)

SpecPlan == InitPlan /\ [][NextPlan]_vars

(***************************************************************************)
(* app.py: the Active-Job Registry                                         *)
(***************************************************************************)
\* variant: an entry that is present keeps its timestamp (dict.setdefault)
mark_processing_start_once(reg, id, t) ==
    [x \in DOMAIN reg \cup {id} |-> IF x \in DOMAIN reg THEN reg[x] ELSE t]

\* mark_processing_start: ACTIVE_PROCESSING[esg_id] = time.time()
mark_processing_start(reg, id, t) ==
    [x \in DOMAIN reg \cup {id} |-> IF x = id THEN t ELSE reg[x]]

\* variant: the registry is emptied (ACTIVE_PROCESSING.clear())
mark_processing_end_clears(reg, id) == [x \in {} |-> 0]

\* mark_processing_end: delete the entry when it is present
mark_processing_end(reg, id) ==
    IF id \in DOMAIN reg THEN [x \in DOMAIN reg \ {id} |-> reg[x]] ELSE reg

\* is_actively_processing
is_actively_processing(reg, id) == id \in DOMAIN reg

(***************************************************************************)
(* The registry functions called by the threads of the process, for any    *)
(* job: a thread calls mark_processing_start(id) for the job of its run,    *)
(* later mark_processing_end(id), possibly twice, or returns without it    *)
(***************************************************************************)
\* esg_ids of two jobs
JobIds == {esg_id, "20242317"}

InitRegistry ==
    /\ InitCommon
    /\ files = NoFiles
    /\ workers = Requests
    /\ budget = MaxStarts

\* mark_processing_start(id) at the start of a run of thread r
RegistryStart(r, id) ==
    /\ r \in workers
    /\ pc[r] \in {"idle", "reg_ended", "reg_ended2", "reg_error"}
    /\ budget > 0
    /\ budget' = budget - 1
    /\ now' = now + 1
    /\ job' = [job EXCEPT ![r] = id]
    /\ ACTIVE_PROCESSING' = mark_processing_start(ACTIVE_PROCESSING, id, now)
    /\ pc' = [pc EXCEPT ![r] = "reg_run"]
    /\ UNCHANGED <<files, db_status, workers, locals, threads, response,
                   history, plan, units>>

\* variant: del ACTIVE_PROCESSING[esg_id] without the membership test
RegistryEndUnguarded(r) ==
    /\ pc[r] \in {"reg_run", "reg_ended"}
    /\ pc' = [pc EXCEPT ![r] = IF pc[r] = "reg_run" THEN "reg_del" ELSE "reg_del2"]
    /\ UNCHANGED <<shared, server, locals, threads, response, history, aside>>

\* mark_processing_end(id), 'if esg_id in ACTIVE_PROCESSING': the first call
\* of the run (from reg_run) or a second call right after the first
RegistryEndTest(r) ==
    /\ pc[r] \in {"reg_run", "reg_ended"}
    /\ pc' = [pc EXCEPT ![r] =
                IF is_actively_processing(ACTIVE_PROCESSING, job[r])
                  THEN (IF pc[r] = "reg_run" THEN "reg_del" ELSE "reg_del2")
                  ELSE (IF pc[r] = "reg_run" THEN "reg_ended" ELSE "reg_ended2")]
    /\ UNCHANGED <<shared, server, locals, threads, response, history, aside>>

\* mark_processing_end(id), 'del ACTIVE_PROCESSING[esg_id]': KeyError when
\* the entry has gone since the test
RegistryEndDel(r) ==
    /\ pc[r] \in {"reg_del", "reg_del2"}
    /\ IF job[r] \in DOMAIN ACTIVE_PROCESSING
         THEN /\ ACTIVE_PROCESSING' = mark_processing_end(ACTIVE_PROCESSING, job[r])
              /\ pc' = [pc EXCEPT ![r] =
                          IF pc[r] = "reg_del" THEN "reg_ended" ELSE "reg_ended2"]
         ELSE /\ pc' = [pc EXCEPT ![r] = "reg_error"]
              /\ UNCHANGED ACTIVE_PROCESSING
    /\ UNCHANGED <<files, db_status, server, locals, threads, response,
                   history, aside>>

\* the run returns without calling mark_processing_end
RegistryReturn(r) ==
    /\ pc[r] = "reg_run"
    /\ pc' = [pc EXCEPT ![r] = "idle"]
    /\ UNCHANGED <<shared, server, locals, threads, response, history, aside>>

NextRegistry ==
    \/ \E r \in Requests, id \in JobIds : RegistryStart(r, id)
    \/ \E r \in Requests : RegistryEndTest(r)
    \/ \E r \in Requests : RegistryEndDel(r)
    \/ \E r \in Requests : RegistryReturn(r)

SpecRegistry == InitRegistry /\ [][NextRegistry]_vars

(***************************************************************************)
(* app.py: query_company, one action per step of a request thread          *)
(***************************************************************************)
\* a return statement is reached with the given 'status' in the JSON body
Leave(r, st) ==
    /\ pc' = [pc EXCEPT ![r] = "respond"]
    /\ response' = [response EXCEPT ![r] = st]

Goto(r, l) ==
    /\ pc' = [pc EXCEPT ![r] = l]
    /\ UNCHANGED response

\* update_analysis_status(esg_id, st)
Persist(r, st) ==
    /\ db_status' = st
    /\ persisted' = [persisted EXCEPT ![r] = Append(@, st)]

\* the work of a stage starts in this run
Start(r, stage) == ran' = [ran EXCEPT ![r] = Append(@, stage)]

\* the work of the stage that this run is executing ends, well or not
Ended(r, stage, ok) ==
    /\ ended' = [ended EXCEPT ![r] = @ \cup {stage}]
    /\ prev_ok' = [prev_ok EXCEPT ![r] = ok]

\* a collaborator call of this run has returned: ok, or failed (a result
\* with success false, or an exception)
Returned(r, who, ok) ==
    failures' = [failures EXCEPT ![r] = IF ok THEN @ ELSE @ \cup {who}]

\* query_company_data: the status of the stored row, 'not_found' without one
query_company_data == IF db_status = "none" THEN "not_found" ELSE db_status

\* a request arrives: parameters are parsed and the database is queried
BeginRequest(r, af) ==
    /\ r \in workers
    /\ budget > 0
    /\ budget' = budget - 1
    /\ now' = now + 1
    /\ pc[r] \in {"idle", "done"}
    /\ auto_fetch' = [auto_fetch EXCEPT ![r] = af]
    /\ result_status' = [result_status EXCEPT ![r] = query_company_data]
    /\ pc' = [pc EXCEPT ![r] = "route"]
    /\ response' = [response EXCEPT ![r] = "none"]
    /\ UNCHANGED <<shared, workers, resume_from, analysis_result, threads,
                   history, aside>>

\* the response is sent; the frame of the handler and its locals are gone
Respond(r) ==
    /\ pc[r] = "respond"
    /\ pc' = [pc EXCEPT ![r] = "done"]
    /\ auto_fetch' = [auto_fetch EXCEPT ![r] = FALSE]
    /\ result_status' = [result_status EXCEPT ![r] = "none"]
    /\ resume_from' = [resume_from EXCEPT ![r] = "none"]
    /\ analysis_result' = [analysis_result EXCEPT ![r] = "None"]
    /\ wordcloud_thread' = [wordcloud_thread EXCEPT ![r] = "none"]
    /\ ai_thread' = [ai_thread EXCEPT ![r] = "none"]
    /\ persisted' = [persisted EXCEPT ![r] = <<>>]
    /\ ran' = [ran EXCEPT ![r] = <<>>]
    /\ ended' = [ended EXCEPT ![r] = {}]
    /\ prev_ok' = [prev_ok EXCEPT ![r] = TRUE]
    /\ failures' = [failures EXCEPT ![r] = {}]
    /\ undeleted' = [undeleted EXCEPT ![r] = {}]
    /\ UNCHANGED <<shared, server, response, aside>>

\* variant: an interrupted job is resumed without asking for auto_fetch
RouteResumesUnasked(r, report_exists) ==
    /\ pc[r] = "route"
    /\ IF result_status[r] = "completed"
         THEN Leave(r, "completed")
       ELSE IF result_status[r] \in PROCESSING_STATES
         THEN IF is_actively_processing(ACTIVE_PROCESSING, esg_id)
                THEN Leave(r, "processing")
              ELSE IF ~report_exists THEN Leave(r, "not_found")
              ELSE Goto(r, "prepare")
       ELSE IF ~report_exists THEN Leave(r, "not_found")
       ELSE IF ~auto_fetch[r] THEN Leave(r, "validation_needed")
       ELSE Goto(r, "prepare")
    /\ UNCHANGED <<shared, server, locals, threads, history, aside>>

\* variant: a request that finds the job active renews its registry entry
RouteRefreshes(r, report_exists) ==
    /\ pc[r] = "route"
    /\ IF result_status[r] = "completed"
         THEN Leave(r, "completed") /\ UNCHANGED ACTIVE_PROCESSING
       ELSE IF result_status[r] \in PROCESSING_STATES
         THEN IF is_actively_processing(ACTIVE_PROCESSING, esg_id)
                THEN /\ Leave(r, "processing")
                     /\ ACTIVE_PROCESSING' =
                           mark_processing_start(ACTIVE_PROCESSING, esg_id, now)
              ELSE /\ UNCHANGED ACTIVE_PROCESSING
                   /\ IF ~auto_fetch[r] THEN Leave(r, "resume_needed")
                      ELSE IF ~report_exists THEN Leave(r, "not_found")
                      ELSE Goto(r, "prepare")
       ELSE /\ UNCHANGED ACTIVE_PROCESSING
            /\ IF ~report_exists THEN Leave(r, "not_found")
               ELSE IF ~auto_fetch[r] THEN Leave(r, "validation_needed")
               ELSE Goto(r, "prepare")
    /\ UNCHANGED <<files, db_status, server, locals, threads, history, aside>>

\* variant: a stored 'completed' is handled like 'failed' and 'not_found'
RouteReruns(r, report_exists) ==
    /\ pc[r] = "route"
    /\ IF result_status[r] \in PROCESSING_STATES
         THEN IF is_actively_processing(ACTIVE_PROCESSING, esg_id)
                THEN Leave(r, "processing")
              ELSE IF ~auto_fetch[r] THEN Leave(r, "resume_needed")
              ELSE IF ~report_exists THEN Leave(r, "not_found")
              ELSE Goto(r, "prepare")
       ELSE IF ~report_exists THEN Leave(r, "not_found")
       ELSE IF ~auto_fetch[r] THEN Leave(r, "validation_needed")
       ELSE Goto(r, "prepare")
    /\ UNCHANGED <<shared, server, locals, threads, history, aside>>

\* cases A to D on result['status']; report_exists is the answer of
\* validate_report_exists
Route(r, report_exists) ==
    /\ pc[r] = "route"
    /\ IF result_status[r] = "completed"
         THEN Leave(r, "completed")
       ELSE IF result_status[r] \in PROCESSING_STATES
         THEN IF is_actively_processing(ACTIVE_PROCESSING, esg_id)
                THEN Leave(r, "processing")
              ELSE IF ~auto_fetch[r] THEN Leave(r, "resume_needed")
              ELSE IF ~report_exists THEN Leave(r, "not_found")
              ELSE Goto(r, "prepare")
       ELSE IF ~report_exists THEN Leave(r, "not_found")
       ELSE IF ~auto_fetch[r] THEN Leave(r, "validation_needed")
       ELSE Goto(r, "prepare")
    /\ UNCHANGED <<shared, server, locals, threads, history, aside>>

\* auto_fetch and result are not read again after is_resume is computed
Forget(r) ==
    /\ auto_fetch' = [auto_fetch EXCEPT ![r] = FALSE]
    /\ result_status' = [result_status EXCEPT ![r] = "none"]

\* variant: a resumed run starts at the stage the stored status names
PrepareResumeFromStatus(r) ==
    /\ pc[r] = "prepare"
    /\ result_status[r] \in PROCESSING_STATES_FOR_RESUME
    /\ resume_from' = [resume_from EXCEPT ![r] =
                          IF result_status[r] \in StageSet
                            THEN result_status[r] ELSE "stage1"]
    /\ Goto(r, "mark")
    /\ Forget(r)
    /\ UNCHANGED <<shared, server, analysis_result, threads, history, aside>>

\* resumed run: the Resume Planner gives resume_from
PrepareResume(r) ==
    /\ pc[r] = "prepare"
    /\ result_status[r] \in PROCESSING_STATES_FOR_RESUME
    /\ resume_from' = [resume_from EXCEPT ![r] =
                          determine_resume_point(files, result_status[r]).resume_from]
    /\ Goto(r, "mark")
    /\ Forget(r)
    /\ UNCHANGED <<shared, server, analysis_result, threads, history, aside>>

\* variant: the first run also asks the Resume Planner where to start
PrepareFirstPlans(r, inserted, already_exists) ==
    /\ pc[r] = "prepare"
    /\ result_status[r] \notin PROCESSING_STATES_FOR_RESUME
    /\ inserted => db_status = "none"
    /\ (~inserted /\ already_exists) => db_status # "none"
    /\ db_status' = IF inserted THEN "processing" ELSE db_status
    /\ IF ~inserted /\ ~already_exists
         THEN /\ Leave(r, "error")
              /\ UNCHANGED resume_from
         ELSE /\ Goto(r, "mark")
              /\ resume_from' = [resume_from EXCEPT ![r] =
                    determine_resume_point(files, result_status[r]).resume_from]
    /\ Forget(r)
    /\ UNCHANGED <<files, ACTIVE_PROCESSING, server, analysis_result, threads,
                   history, aside>>

\* first run: insert_company_basic(status='processing'); inserted is its
\* success flag and already_exists tells that its message has the text 已存在
PrepareFirst(r, inserted, already_exists) ==
    /\ pc[r] = "prepare"
    /\ result_status[r] \notin PROCESSING_STATES_FOR_RESUME
    /\ inserted => db_status = "none"
    /\ (~inserted /\ already_exists) => db_status # "none"
    /\ db_status' = IF inserted THEN "processing" ELSE db_status
    /\ IF ~inserted /\ ~already_exists
         THEN /\ Leave(r, "error")
              /\ UNCHANGED resume_from
         ELSE /\ Goto(r, "mark")
              /\ resume_from' = [resume_from EXCEPT ![r] = "stage1"]
    /\ Forget(r)
    /\ UNCHANGED <<files, ACTIVE_PROCESSING, server, analysis_result, threads,
                   history, aside>>

\* mark_processing_start(esg_id), then the try block is entered
MarkStart(r) ==
    /\ pc[r] = "mark"
    /\ ACTIVE_PROCESSING' = mark_processing_start(ACTIVE_PROCESSING, esg_id, now)
    /\ Goto(r, "stage1")
    /\ UNCHANGED <<files, db_status, server, locals, threads, history, aside>>

\* variant: only the stage named by resume_from is executed
RunsOnlyResumeStage(r, stage) == resume_from[r] = stage

\* a stage is entered (its status persisted, its work started) when
\* resume_from is that stage or an earlier one, and skipped otherwise
ShouldRun(r, stage) == StageIdx(resume_from[r]) \in 1..StageIdx(stage)

\* wordcloud_result is read for the last time in the branches that follow
\* the two joins: from the next stage on, a thread that has ended is of no
\* account and a thread that is still running ("detached") runs on with
\* nobody waiting for its result
DropResult(r) ==
    wordcloud_thread' = [wordcloud_thread EXCEPT ![r] =
                            IF @ \in {"running", "detached"} THEN "detached" ELSE "none"]

\* the word-cloud thread of the run is executing
WordCloudAlive(r) == wordcloud_thread[r] \in {"running", "detached"}

\* variant: the work of a stage starts without its status being persisted
StageEnterWithoutStatus(r, stage, run_pc, next_pc) ==
    /\ pc[r] = stage
    /\ DropResult(r)
    /\ IF ShouldRun(r, stage)
         THEN /\ Start(r, stage)
              /\ Goto(r, run_pc)
         ELSE /\ Goto(r, next_pc)
              /\ UNCHANGED ran
    /\ UNCHANGED <<shared, server, locals, ai_thread, persisted, ended,
                   prev_ok, failures, undeleted, aside>>

\* variant: every stage is entered, whatever resume_from is
StageEnterAlways(r, stage, run_pc, next_pc) ==
    /\ pc[r] = stage
    /\ DropResult(r)
    /\ Persist(r, stage)
    /\ Start(r, stage)
    /\ Goto(r, run_pc)
    /\ UNCHANGED <<files, ACTIVE_PROCESSING, server, locals, ai_thread, ended,
                   prev_ok, failures, undeleted, aside>>

StageEnter(r, stage, run_pc, next_pc) ==
    /\ pc[r] = stage
    /\ DropResult(r)
    /\ IF ShouldRun(r, stage)
         THEN /\ Persist(r, stage)
              /\ Start(r, stage)
              /\ Goto(r, run_pc)
         ELSE /\ Goto(r, next_pc)
              /\ UNCHANGED <<db_status, persisted, ran>>
    /\ UNCHANGED <<files, ACTIVE_PROCESSING, server, locals, ai_thread, ended,
                   prev_ok, failures, undeleted, aside>>

Stage1Enter(r) == StageEnter(r, "stage1", "s1_run", "stage2")

\* download_esg_report returns (True, path), returns (False, error) or raises;
\* pdf is the file it stored, under the name cleanup_temp_files expects or
\* under another name of the pattern {year}_{company_code}_*.pdf
Download(r, outcome, pdf) ==
    /\ pc[r] = "s1_run"
    /\ (outcome = "ok") <=> (pdf # Absent)
    /\ CASE outcome = "ok" ->
              /\ files' = [files EXCEPT !["stage1"] = pdf]
              /\ Goto(r, "stage2")
         [] outcome = "fail" ->
              /\ Goto(r, "s1_failed")
              /\ UNCHANGED files
         [] outcome = "raise" ->
              /\ Goto(r, "except")
              /\ UNCHANGED files
    /\ Ended(r, "stage1", outcome = "ok")
    /\ Returned(r, "download", outcome = "ok")
    /\ UNCHANGED <<db_status, ACTIVE_PROCESSING, server, locals, threads,
                   persisted, ran, undeleted, aside>>

\* variant: a failed download is reported and the run goes on with stage 2
DownloadFailedContinues(r) ==
    /\ pc[r] = "s1_failed"
    /\ Goto(r, "stage2")
    /\ UNCHANGED <<shared, server, locals, threads, history, aside>>

\* not download_success: status 'failed' ...
DownloadFailed(r) ==
    /\ pc[r] = "s1_failed"
    /\ Persist(r, "failed")
    /\ Goto(r, "release")
    /\ UNCHANGED <<files, ACTIVE_PROCESSING, server, locals, threads, ran,
                   ended, prev_ok, failures, undeleted, aside>>

\* Stage 2 is entered (status 'stage2', both threads started) or skipped
Stage2Enter(r) ==
    /\ pc[r] = "stage2"
    /\ IF ShouldRun(r, "stage2")
         THEN /\ Persist(r, "stage2")
              /\ Start(r, "stage2")
              /\ wordcloud_thread' = [wordcloud_thread EXCEPT ![r] = "running"]
              /\ ai_thread' = [ai_thread EXCEPT ![r] = "running"]
              /\ Goto(r, "join_wc")
              /\ UNCHANGED analysis_result
         ELSE /\ analysis_result' = [analysis_result EXCEPT ![r] = "placeholder"]
              /\ Goto(r, "stage3")
              /\ UNCHANGED <<db_status, persisted, ran, threads>>
    /\ UNCHANGED <<files, ACTIVE_PROCESSING, server, auto_fetch, result_status,
                   resume_from, ended, prev_ok, failures, undeleted, aside>>

\* what run_wordcloud leaves in wordcloud_result: success, success with
\* 'skipped', or success false (returned by generate_wordcloud, or set by the
\* except clause of the thread)
WordCloudOutcomes == {"success", "skipped", "error"}

\* variant: an error of the word cloud marks the job failed
WordCloudFinishEscalates(r, outcome) ==
    /\ WordCloudAlive(r)
    /\ wordcloud_thread' = [wordcloud_thread EXCEPT ![r] =
                                IF @ = "running" THEN outcome ELSE "none"]
    /\ IF outcome = "error"
         THEN Persist(r, "failed")
         ELSE UNCHANGED <<db_status, persisted>>
    /\ UNCHANGED <<files, ACTIVE_PROCESSING, server, pc, locals, ai_thread,
                   response, ran, ended, prev_ok, failures, undeleted, aside>>

\* run_wordcloud ends: generate_wordcloud returned or its exception was caught
WordCloudFinish(r, outcome) ==
    /\ WordCloudAlive(r)
    /\ wordcloud_thread' = [wordcloud_thread EXCEPT ![r] =
                                IF @ = "running" THEN outcome ELSE "none"]
    /\ UNCHANGED <<shared, server, pc, locals, ai_thread, response, history, aside>>

\* run_ai_analysis ends: analyze_esg_report wrote the P1 JSON and returned, or
\* it raised and the thread died with analysis_result left unset
AiFinish(r, ok) ==
    /\ ai_thread[r] = "running"
    /\ IF ok
         THEN /\ files' = [files EXCEPT !["stage2"] = Json("list", 1)]
              /\ analysis_result' = [analysis_result EXCEPT ![r] = "result"]
              /\ ai_thread' = [ai_thread EXCEPT ![r] = "done"]
         ELSE /\ ai_thread' = [ai_thread EXCEPT ![r] = "raised"]
              /\ UNCHANGED <<files, analysis_result>>
    /\ Returned(r, "extraction", ok)
    /\ UNCHANGED <<db_status, ACTIVE_PROCESSING, server, pc, auto_fetch,
                   result_status, resume_from, wordcloud_thread, response,
                   persisted, ran, ended, prev_ok, undeleted, aside>>

\* variant: join() without a timeout
JoinWordCloudForever(r, timed_out) ==
    /\ pc[r] = "join_wc"
    /\ wordcloud_thread[r] # "running"
    /\ Goto(r, "join_ai")
    /\ UNCHANGED <<shared, server, locals, threads, history, aside>>

\* wordcloud_thread.join(timeout=120): the thread has ended or 120 s passed
JoinWordCloud(r, timed_out) ==
    /\ pc[r] = "join_wc"
    /\ timed_out \/ wordcloud_thread[r] # "running"
    /\ Goto(r, "join_ai")
    /\ UNCHANGED <<shared, server, locals, threads, history, aside>>

\* variant: the join of the AI thread gives up while the thread is running
JoinAiWithTimeout(r) ==
    /\ pc[r] = "join_ai"
    /\ Goto(r, "stage3")
    /\ Ended(r, "stage2", ai_thread[r] = "done")
    /\ UNCHANGED <<shared, server, locals, threads, persisted, ran, failures,
                   undeleted, aside>>

\* ai_thread.join(): returns when the thread has ended, however it ended
JoinAi(r) ==
    /\ pc[r] = "join_ai"
    /\ ai_thread[r] # "running"
    /\ Goto(r, "stage3")
    /\ Ended(r, "stage2", ai_thread[r] = "done")
    /\ UNCHANGED <<shared, server, locals, threads, persisted, ran, failures,
                   undeleted, aside>>

Stage3Enter(r) == StageEnter(r, "stage3", "s3_run", "stage4")

Stage4Enter(r) == StageEnter(r, "stage4", "s4_run", "stage5")

Stage5Enter(r) == StageEnter(r, "stage5", "s5_run", "stage6")

\* variant: a failure of the collaborator reaches the except clause of the run
HardStageRun(r, stage, run_pc, next_pc, ok, out) ==
    /\ pc[r] = run_pc
    /\ files' = IF ok THEN [files EXCEPT ![stage] = out] ELSE files
    /\ Ended(r, stage, ok)
    /\ Returned(r, stage, ok)
    /\ Goto(r, IF ok THEN next_pc ELSE "except")
    /\ UNCHANGED <<db_status, ACTIVE_PROCESSING, server, locals, threads,
                   persisted, ran, undeleted, aside>>

\* the try/except around a collaborator of stages 3 to 5: a success writes
\* the artifact; success false or an exception is printed and the run goes on
SoftStageRun(r, stage, run_pc, next_pc, ok, out) ==
    /\ pc[r] = run_pc
    /\ files' = IF ok THEN [files EXCEPT ![stage] = out] ELSE files
    /\ Ended(r, stage, ok)
    /\ Returned(r, stage, ok)
    /\ Goto(r, next_pc)
    /\ UNCHANGED <<db_status, ACTIVE_PROCESSING, server, locals, threads,
                   persisted, ran, undeleted, aside>>

\* search_news_for_report(force_regenerate=True)
SearchNews(r, ok) == SoftStageRun(r, "stage3", "s3_run", "stage4", ok, Json("list", 1))

\* verify_esg_with_news(force_regenerate=True)
VerifyWithNews(r, ok) == SoftStageRun(r, "stage4", "s4_run", "stage5", ok, Json("list", 1))

\* pplx_api.verify_evidence_sources(force_regenerate=True): needs a P2 JSON
\* that loads to a list; writes the kept items (possibly none) as the P3 JSON
CanVerifySources(fs) ==
    /\ fs["stage4"].exists
    /\ fs["stage4"].parseable
    /\ fs["stage4"].type = "list"

VerifySources(r, ok, kept) ==
    /\ ok => (CanVerifySources(files) /\ kept \in 0..files["stage4"].len)
    /\ ~ok => kept = 0
    /\ SoftStageRun(r, "stage5", "s5_run", "stage6", ok, Json("list", kept))

\* Step 7 starts: status 'stage6'
Stage6Enter(r) ==
    /\ pc[r] = "stage6"
    /\ Persist(r, "stage6")
    /\ Start(r, "stage6")
    /\ Goto(r, "s6_load")
    /\ DropResult(r)
    /\ UNCHANGED <<files, ACTIVE_PROCESSING, server, locals, ai_thread, ended,
                   prev_ok, failures, undeleted, aside>>

\* variant: the handler waits for the P3 JSON to appear
LoadP3Waits(r) ==
    /\ pc[r] = "s6_load"
    /\ files["stage5"].exists
    /\ IF ~files["stage5"].parseable THEN Goto(r, "except")
       ELSE IF files["stage5"].type \notin {"list", "dict"} THEN Goto(r, "except")
       ELSE Goto(r, "s6_insert")
    /\ UNCHANGED <<shared, server, locals, threads, history, aside>>

\* os.path.exists(p3_path), json.load and len() of the loaded value
LoadP3(r) ==
    /\ pc[r] = "s6_load"
    /\ IF ~files["stage5"].exists THEN Goto(r, "p3_missing")
       ELSE IF ~files["stage5"].parseable THEN Goto(r, "except")
       ELSE IF files["stage5"].type \notin {"list", "dict"} THEN Goto(r, "except")
       ELSE Goto(r, "s6_insert")
    /\ UNCHANGED <<shared, server, locals, threads, history, aside>>

\* P3 JSON missing: status 'failed' and return 500
P3Missing(r) ==
    /\ pc[r] = "p3_missing"
    /\ Persist(r, "failed")
    /\ Leave(r, "failed")
    /\ UNCHANGED <<files, ACTIVE_PROCESSING, server, locals, threads, ran,
                   ended, prev_ok, failures, undeleted, aside>>

\* analysis_result.get('url', ...) and insert_analysis_results, which
\* returns (True, _), returns (False, msg) or raises
InsertResults(r, outcome) ==
    /\ pc[r] = "s6_insert"
    /\ IF analysis_result[r] = "None"
         THEN /\ Goto(r, "except")
              /\ UNCHANGED <<ended, prev_ok, failures>>
         ELSE /\ CASE outcome = "ok" -> Goto(r, "commit")
                   [] outcome = "fail" -> Goto(r, "insert_failed")
                   [] outcome = "raise" -> Goto(r, "except")
              /\ Ended(r, "stage6", outcome = "ok")
              /\ Returned(r, "insert", outcome = "ok")
    /\ UNCHANGED <<shared, server, locals, threads, persisted, ran, undeleted,
                   aside>>

\* not insert_success: status 'failed' and return 500
InsertFailed(r) ==
    /\ pc[r] = "insert_failed"
    /\ Persist(r, "failed")
    /\ Leave(r, "failed")
    /\ UNCHANGED <<files, ACTIVE_PROCESSING, server, locals, threads, ran,
                   ended, prev_ok, failures, undeleted, aside>>

\* Step 8: status 'completed'
Commit(r) ==
    /\ pc[r] = "commit"
    /\ Persist(r, "completed")
    /\ Goto(r, "readback")
    /\ UNCHANGED <<files, ACTIVE_PROCESSING, server, locals, threads, ran,
                   ended, prev_ok, failures, undeleted, aside>>

\* Step 9: query_company_data and calculate_esg_scores; either may raise
ReadBack(r, raises) ==
    /\ pc[r] = "readback"
    /\ IF raises THEN Goto(r, "except")
       ELSE IF query_company_data = "completed" THEN Goto(r, "cleanup")
       ELSE Leave(r, "error")
    /\ Returned(r, "readback", ~raises)
    /\ UNCHANGED <<shared, server, locals, threads, persisted, ran, ended,
                   prev_ok, undeleted, aside>>

\* cleanup_temp_files, os.path.exists(file_path) of a target: the PDF target
\* is the one name built from company_name, the JSON targets are the names
\* the stages write
TargetExists(fs, s) ==
    IF s = "stage1" THEN fs[s] = Pdf ELSE fs[s].exists

\* cleanup_temp_files: every target that exists is removed, except those
\* whose os.remove raises (failing); the exception is printed and the loop
\* goes on with the next target
cleanup_temp_files(fs, failing) ==
    [s \in FileStages |->
        IF TargetExists(fs, s) /\ s \notin failing THEN Absent ELSE fs[s]]

\* variant: an os.remove that raises ends the loop and reaches the except
\* clause of the run
CleanupEscalates(r, failing) ==
    /\ pc[r] = "cleanup"
    /\ failing \subseteq {s \in FileStages : TargetExists(files, s)}
    /\ files' = IF failing = {} THEN cleanup_temp_files(files, {}) ELSE files
    /\ undeleted' = [undeleted EXCEPT ![r] = failing]
    /\ Goto(r, IF failing = {} THEN "finish" ELSE "except")
    /\ UNCHANGED <<db_status, ACTIVE_PROCESSING, server, locals, threads,
                   persisted, ran, ended, prev_ok, failures, aside>>

\* cleanup_temp_files(year, company_code, company_name) in the run
Cleanup(r, failing) ==
    /\ pc[r] = "cleanup"
    /\ failing \subseteq {s \in FileStages : TargetExists(files, s)}
    /\ files' = cleanup_temp_files(files, failing)
    /\ undeleted' = [undeleted EXCEPT ![r] = failing]
    /\ Goto(r, "finish")
    /\ UNCHANGED <<db_status, ACTIVE_PROCESSING, server, locals, threads,
                   persisted, ran, ended, prev_ok, failures, aside>>

\* mark_processing_end and the 'completed' response
Finish(r) ==
    /\ pc[r] = "finish"
    /\ ACTIVE_PROCESSING' = mark_processing_end(ACTIVE_PROCESSING, esg_id)
    /\ Leave(r, "completed")
    /\ UNCHANGED <<files, db_status, server, locals, threads, history, aside>>

\* variant: the except clause also removes the temporary files
ExceptCleansUp(r) ==
    /\ pc[r] = "except"
    /\ Persist(r, "failed")
    /\ files' = cleanup_temp_files(files, {})
    /\ Goto(r, "release")
    /\ UNCHANGED <<ACTIVE_PROCESSING, server, locals, threads, ran,
                   ended, prev_ok, failures, undeleted, aside>>

\* except Exception: status 'failed' ...
Except(r) ==
    /\ pc[r] = "except"
    /\ Persist(r, "failed")
    /\ Goto(r, "release")
    /\ UNCHANGED <<files, ACTIVE_PROCESSING, server, locals, threads, ran,
                   ended, prev_ok, failures, undeleted, aside>>

\* ... then mark_processing_end and return 500 (after a failed download and
\* in the except clause)
Release(r) ==
    /\ pc[r] = "release"
    /\ ACTIVE_PROCESSING' = mark_processing_end(ACTIVE_PROCESSING, esg_id)
    /\ Leave(r, "failed")
    /\ UNCHANGED <<files, db_status, server, locals, threads, history, aside>>

Outcomes == {"ok", "fail", "raise"}

\* the sets of targets whose os.remove raises in one call of cleanup_temp_files
RemoveErrors == {x \in SUBSET FileStages : Cardinality(x) <= MaxRemoveErrors}

Next ==
    \/ \E r \in Requests, af \in BOOLEAN : BeginRequest(r, af)
    \/ \E r \in Requests : Respond(r)
    \/ \E r \in Requests, e \in BOOLEAN : Route(r, e)
    \/ \E r \in Requests : PrepareResume(r)
    \/ \E r \in Requests, i \in BOOLEAN, a \in BOOLEAN : PrepareFirst(r, i, a)
    \/ \E r \in Requests : MarkStart(r)
    \/ \E r \in Requests : Stage1Enter(r)
    \/ \E r \in Requests, o \in Outcomes, f \in PdfFiles : Download(r, o, f)
    \/ \E r \in Requests : DownloadFailed(r)
    \/ \E r \in Requests : Stage2Enter(r)
    \/ \E r \in Requests, o \in WordCloudOutcomes : WordCloudFinish(r, o)
    \/ \E r \in Requests, ok \in BOOLEAN : AiFinish(r, ok)
    \/ \E r \in Requests, t \in BOOLEAN : JoinWordCloud(r, t)
    \/ \E r \in Requests : JoinAi(r)
    \/ \E r \in Requests : Stage3Enter(r)
    \/ \E r \in Requests, ok \in BOOLEAN : SearchNews(r, ok)
    \/ \E r \in Requests : Stage4Enter(r)
    \/ \E r \in Requests, ok \in BOOLEAN : VerifyWithNews(r, ok)
    \/ \E r \in Requests : Stage5Enter(r)
    \/ \E r \in Requests, ok \in BOOLEAN, k \in 0..MaxLen : VerifySources(r, ok, k)
    \/ \E r \in Requests : Stage6Enter(r)
    \/ \E r \in Requests : LoadP3(r)
    \/ \E r \in Requests : P3Missing(r)
    \/ \E r \in Requests, o \in Outcomes : InsertResults(r, o)
    \/ \E r \in Requests : InsertFailed(r)
    \/ \E r \in Requests : Commit(r)
    \/ \E r \in Requests, x \in BOOLEAN : ReadBack(r, x)
    \/ \E r \in Requests, f \in RemoveErrors : Cleanup(r, f)
    \/ \E r \in Requests : Finish(r)
    \/ \E r \in Requests : Except(r)
    \/ \E r \in Requests : Release(r)

Spec == Init /\ [][Next]_vars

\* the same process serving one request at a time
InitOne ==
    /\ InitCommon
    /\ files = NoFiles
    /\ workers = {"r1"}
    /\ budget = MaxRequestsOne

SpecOne == InitOne /\ [][Next]_vars

\* the service is restarted: the memory of the process (the registry, the
\* request threads and their worker threads) is lost; the database row and
\* the files in temp_data stay
Restart ==
    /\ ACTIVE_PROCESSING' = EmptyRegistry
    /\ pc' = [r \in Requests |-> "idle"]
    /\ auto_fetch' = [r \in Requests |-> FALSE]
    /\ result_status' = [r \in Requests |-> "none"]
    /\ resume_from' = [r \in Requests |-> "none"]
    /\ analysis_result' = [r \in Requests |-> "None"]
    /\ wordcloud_thread' = [r \in Requests |-> "none"]
    /\ ai_thread' = [r \in Requests |-> "none"]
    /\ response' = [r \in Requests |-> "none"]
    /\ persisted' = [r \in Requests |-> <<>>]
    /\ ran' = [r \in Requests |-> <<>>]
    /\ ended' = [r \in Requests |-> {}]
    /\ prev_ok' = [r \in Requests |-> TRUE]
    /\ failures' = [r \in Requests |-> {}]
    /\ undeleted' = [r \in Requests |-> {}]
    /\ UNCHANGED <<files, db_status, server, aside>>

NextRestart == Next \/ Restart

\* one request at a time, in a service that may be restarted at any moment
SpecRestart == InitOne /\ [][NextRestart]_vars

(***************************************************************************)
(* Properties of the Resume Planner (specification SpecPlan)               *)
(***************************************************************************)
\* an artifact as the data model wants it: the PDF exists; a JSON file
\* exists, parses and holds a list or mapping with at least one element
ValidArtifact(fs, s) ==
    IF s = "stage1" THEN fs[s] \in {Pdf, PdfOther}
    ELSE \E t \in {"list", "dict"} : fs[s] = Json(t, fs[s].len) /\ fs[s].len >= 1

\* stages of stage1..stage5 without a valid artifact, and stage6
Incomplete(fs) == {s \in FileStages : ~ValidArtifact(fs, s)} \cup {"stage6"}

EarliestIncomplete(fs) ==
    CHOOSE s \in Incomplete(fs) : \A t \in Incomplete(fs) : StageIdx(s) <= StageIdx(t)

\* C1: resume_from is the earliest stage, in the order stage1..stage6, whose
\* artifact is missing or invalid (stage6 when all five are valid); a valid
\* artifact of a later stage never moves it past an earlier incomplete stage,
\* and with no artifact at all it is stage1.
C1_ResumeFromEarliestIncomplete ==
    plan.called =>
        /\ plan.result.resume_from = EarliestIncomplete(plan.fs)
        /\ \A i \in FileStages :
              ~ValidArtifact(plan.fs, i) =>
                  StageIdx(plan.result.resume_from) <= StageIdx(i)
        /\ (plan.fs = NoFiles => plan.result.resume_from = "stage1")

\* a later artifact is valid while an earlier one is unparseable, and the
\* plan resumes at the earlier stage
C1_Witness ==
    /\ plan.called
    /\ plan.fs["stage1"] = Pdf
    /\ plan.fs["stage2"] = Garbage
    /\ ValidArtifact(plan.fs, "stage4")
    /\ plan.result.resume_from = "stage2"

\* C2 as stated: completed_stages holds only stages that precede resume_from
\* (so {stage1, stage2} when only the stage3 artifact is missing).
C2_CompletedPrecedeResume ==
    plan.called =>
        \A s \in SeqToSet(plan.result.completed_stages) :
            StageIdx(s) < StageIdx(plan.result.resume_from)

OnlyStage3Missing(fs) ==
    /\ fs["stage3"] = Absent
    /\ \A s \in FileStages \ {"stage3"} : ValidArtifact(fs, s)

\* C2 amended: completed_stages lists, in stage order and without repeats,
\* every stage whose check reports complete, before or after resume_from;
\* its members before resume_from are all the stages before resume_from.
\* With only the stage3 artifact missing: resume_from = stage3 and
\* completed_stages = [stage1, stage2, stage4, stage5].
C2_CompletedStagesAreAllValid ==
    plan.called =>
        LET cs == plan.result.completed_stages
            rf == plan.result.resume_from
        IN  /\ SeqToSet(cs) = {s \in FileStages : ValidArtifact(plan.fs, s)}
            /\ \A i, j \in 1..Len(cs) : i < j => StageIdx(cs[i]) < StageIdx(cs[j])
            /\ {s \in SeqToSet(cs) : StageIdx(s) < StageIdx(rf)}
                  = {s \in StageSet : StageIdx(s) < StageIdx(rf)}
            /\ OnlyStage3Missing(plan.fs) =>
                  /\ rf = "stage3"
                  /\ cs = <<"stage1", "stage2", "stage4", "stage5">>

C2_Witness ==
    /\ plan.called
    /\ OnlyStage3Missing(plan.fs)
    /\ plan.result.resume_from = "stage3"

(***************************************************************************)
(* Properties of a run of the pipeline                                     *)
(***************************************************************************)
TerminalStatuses == {"completed", "failed"}

LaterStages == {"stage3", "stage4", "stage5", "stage6"}

\* the request has passed mark_processing_start in this invocation
Entered(r) == pc[r] \in LoopPCs \/ (pc[r] = "respond" /\ resume_from[r] # "none")

\* number of terminal statuses this run has persisted
RECURSIVE TerminalCount(_)
TerminalCount(q) ==
    IF q = <<>> THEN 0
    ELSE (IF Head(q) \in TerminalStatuses THEN 1 ELSE 0) + TerminalCount(Tail(q))

\* C3: a run that entered the execution loop and returns 'failed' has
\* persisted 'failed' last and has removed the registry entry of the job.
C3_FatalFailureReleases ==
    \A r \in Requests :
        (pc[r] = "respond" /\ Entered(r) /\ response[r] = "failed") =>
            /\ persisted[r] # <<>>
            /\ persisted[r][Len(persisted[r])] = "failed"
            /\ ~is_actively_processing(ACTIVE_PROCESSING, esg_id)

\* C4: the registry has an entry for the job exactly when some request is
\* between its mark_processing_start and the end of its run.
C4_RegistryIffInLoop ==
    is_actively_processing(ACTIVE_PROCESSING, esg_id)
        <=> (\E r \in Requests : pc[r] \in LoopPCs)

\* C5: a run persists at most one terminal status, exactly one by the time
\* it returns, and never 'failed' after 'completed'.
C5_OneTerminalStatus ==
    \A r \in Requests :
        /\ TerminalCount(persisted[r]) <= 1
        /\ (pc[r] = "respond" /\ Entered(r)) => TerminalCount(persisted[r]) = 1

\* C6: when the AI analysis thread of this run has died with an exception,
\* the run has started no work of stage3..stage6 and has persisted no status
\* after 'stage2' except 'failed'.
C6_ExtractionFailureAborts ==
    \A r \in Requests :
        ai_thread[r] = "raised" =>
            /\ SeqToSet(ran[r]) \cap LaterStages = {}
            /\ SeqToSet(persisted[r]) \cap (LaterStages \cup {"completed"}) = {}

\* the stages a run executes are consecutive and ascending
Ascending(q) == \A i \in 1..Len(q) : StageIdx(q[i]) = StageIdx(q[1]) + i - 1

\* positions right after the work of a stage has been started
StartedPCs == {"s1_run", "join_wc", "s3_run", "s4_run", "s5_run", "s6_load"}

C8_AtMostOneInLoop ==
    Cardinality({r \in Requests : pc[r] \in LoopPCs}) <= 1

\* the request thread is not kept from running, and the 120 s of the bounded
\* join pass; nothing is assumed about the word-cloud thread
FairOne ==
    /\ SpecOne
    /\ \A r \in Requests :
          /\ WF_vars(\E t \in BOOLEAN : JoinWordCloud(r, t))
          /\ WF_vars(JoinAi(r))

\* C9: once the AI analysis thread has ended, a run waiting in stage 2
\* reaches stage 3, whether or not the word-cloud thread ever ends.
C9_MandatoryTaskDominance ==
    \A r \in Requests :
        (pc[r] \in {"join_wc", "join_ai"} /\ ai_thread[r] \in {"done", "raised"})
            ~> (pc[r] = "stage3")

\* the run is past stage 2 while its word-cloud thread is still running
C9_Witness ==
    \E r \in Requests :
        /\ pc[r] = "stage3"
        /\ "stage2" \in ended[r]
        /\ ai_thread[r] = "done"
        /\ wordcloud_thread[r] = "running"

\* C10: a run that executed stage 2 is past the join of the AI analysis
\* thread, and has persisted 'stage3', only when that thread has ended.
C10_Stage3AfterMandatoryThread ==
    \A r \in Requests :
        "stage2" \in SeqToSet(ran[r]) =>
            /\ pc[r] \notin {"join_wc", "join_ai"} => ai_thread[r] \in {"done", "raised"}
            /\ "stage3" \in SeqToSet(persisted[r]) => ai_thread[r] \in {"done", "raised"}

\* 'stage3' is persisted in a run that executed stage 2 and whose AI
\* analysis thread has ended
C10_Witness ==
    \E r \in Requests :
        /\ pc[r] = "s3_run"
        /\ persisted[r] = <<"stage1", "stage2", "stage3">>
        /\ "stage2" \in ended[r]
        /\ ai_thread[r] = "done"

(***************************************************************************)
(* Properties of the sub-tasks of stage 2 and of the soft and fatal stages *)
(***************************************************************************)
\* C11: the outcome of the word-cloud thread (success, skipped, error or
\* caught exception, still running at the timeout) decides nothing in the
\* run.  The thread's own step changes only its result; a handler waiting
\* in the bounded join can go on whatever the thread's state is; the only
\* steps that look at the result, from the bounded join up to stage 3, take
\* the same continuation and change no status, response, registry entry or
\* artifact; and the second join waits for the AI analysis thread alone.
C11_WordCloudDecidesNothing ==
    /\ [](\A r \in Requests :
            /\ pc[r] = "join_wc" => ENABLED JoinWordCloud(r, TRUE)
            /\ pc[r] = "join_ai" => (ENABLED JoinAi(r) <=> ai_thread[r] # "running"))
    /\ [][\A r \in Requests :
            /\ (wordcloud_thread'[r] # wordcloud_thread[r] /\ pc'[r] = pc[r]) =>
                  UNCHANGED <<shared, pc, response, locals, ai_thread, history>>
            /\ (pc[r] = "join_wc" /\ pc'[r] # pc[r]) =>
                  /\ pc'[r] = "join_ai"
                  /\ UNCHANGED <<shared, response, locals, persisted, ran, failures>>
            /\ (pc[r] = "join_ai" /\ pc'[r] # pc[r]) =>
                  /\ pc'[r] = "stage3"
                  /\ UNCHANGED <<shared, response, locals, persisted, ran, failures>>
       ]_vars

\* the run is past both joins with the statuses of a run whose word cloud
\* succeeded, although its word cloud ended with an error
C11_Witness ==
    \E r \in Requests :
        /\ pc[r] = "stage3"
        /\ wordcloud_thread[r] = "error"
        /\ ai_thread[r] = "done"
        /\ persisted[r] = <<"stage1", "stage2">>

\* positions of a run on its way to a 'failed' response
FatalPCs == {"s1_failed", "p3_missing", "insert_failed", "except", "release"}

\* C12: in a run in which the news search failed and no other collaborator
\* did, 'failed' is never persisted and no fatal path is taken; the run
\* executes stage4, stage5 and stage6 and returns 'completed' with
\* 'completed' persisted last.
C12_NewsFailureIsSoft ==
    \A r \in Requests :
        failures[r] = {"stage3"} =>
            /\ "failed" \notin SeqToSet(persisted[r])
            /\ pc[r] \notin FatalPCs
            /\ pc[r] = "respond" =>
                  /\ response[r] = "completed"
                  /\ persisted[r][Len(persisted[r])] = "completed"
                  /\ {"stage4", "stage5", "stage6"} \subseteq SeqToSet(ran[r])
                  /\ db_status = "completed"

\* a run whose only failure was the news search has returned 'completed'
C12_Witness ==
    \E r \in Requests :
        /\ pc[r] = "respond"
        /\ failures[r] = {"stage3"}
        /\ response[r] = "completed"
        /\ ran[r] = <<"stage1", "stage2", "stage3", "stage4", "stage5", "stage6">>

\* C13: a run whose download failed (success false or an exception) executes
\* no stage after stage1, returns 'failed' with 'failed' persisted right
\* after 'stage1', and no step taken while it is on its way out changes an
\* artifact of stage2..stage5.
C13_DownloadFailureIsFatal ==
    /\ [](\A r \in Requests :
            "download" \in failures[r] =>
                /\ ran[r] = <<"stage1">>
                /\ pc[r] \in {"s1_failed", "except", "release", "respond"}
                /\ pc[r] = "respond" =>
                      /\ response[r] = "failed"
                      /\ persisted[r] = <<"stage1", "failed">>
                      /\ db_status = "failed")
    /\ [][(\E r \in Requests : "download" \in failures[r]) =>
            \A s \in JsonStages : files'[s] = files[s]]_vars

\* a run whose download failed has returned 'failed'
C13_Witness ==
    \E r \in Requests :
        /\ pc[r] = "respond"
        /\ "download" \in failures[r]
        /\ response[r] = "failed"

\* stages before the resume point of the run
Skipped(r) == {s \in StageSet : StageIdx(s) < StageIdx(resume_from[r])}

\* C14: a run started at resume_from executes no stage before resume_from
\* and persists none of their names, and the artifact of such a stage is
\* changed by no step before the cleanup of the run.
C14_SkippedStagesUntouched ==
    /\ [](\A r \in Requests :
            resume_from[r] # "none" =>
                /\ SeqToSet(ran[r]) \cap Skipped(r) = {}
                /\ SeqToSet(persisted[r]) \cap Skipped(r) = {})
    /\ [][\A r \in Requests :
            \A s \in FileStages \cap Skipped(r) :
                files'[s] # files[s] => (pc[r] = "cleanup" /\ pc'[r] = "finish")
       ]_vars

\* a run resumed at stage4 is executing stage4 on the artifacts of stage1,
\* stage2 and stage3 that an earlier run left
C14_Witness ==
    \E r \in Requests :
        /\ resume_from[r] = "stage4"
        /\ pc[r] = "s4_run"
        /\ ran[r] = <<"stage4">>
        /\ persisted[r] = <<"stage4">>
        /\ \A s \in {"stage1", "stage2", "stage3"} : ValidArtifact(files, s)

C16_ReturnsPersistedTerminal ==
    \A r \in Requests :
        (pc[r] = "respond" /\ Entered(r)) =>
            /\ response[r] \in TerminalStatuses
            /\ response[r] = db_status

\* a step of the request thread inside query_company
HandlerStep(r) ==
    \/ \E e \in BOOLEAN : Route(r, e)
    \/ PrepareResume(r)
    \/ \E i \in BOOLEAN, a \in BOOLEAN : PrepareFirst(r, i, a)
    \/ MarkStart(r)
    \/ Stage1Enter(r)
    \/ \E o \in Outcomes, f \in PdfFiles : Download(r, o, f)
    \/ DownloadFailed(r)
    \/ Stage2Enter(r)
    \/ \E t \in BOOLEAN : JoinWordCloud(r, t)
    \/ JoinAi(r)
    \/ Stage3Enter(r)
    \/ \E ok \in BOOLEAN : SearchNews(r, ok)
    \/ Stage4Enter(r)
    \/ \E ok \in BOOLEAN : VerifyWithNews(r, ok)
    \/ Stage5Enter(r)
    \/ \E ok \in BOOLEAN, k \in 0..MaxLen : VerifySources(r, ok, k)
    \/ Stage6Enter(r)
    \/ LoadP3(r)
    \/ P3Missing(r)
    \/ \E o \in Outcomes : InsertResults(r, o)
    \/ InsertFailed(r)
    \/ Commit(r)
    \/ \E x \in BOOLEAN : ReadBack(r, x)
    \/ \E f \in RemoveErrors : Cleanup(r, f)
    \/ Finish(r)
    \/ Except(r)
    \/ Release(r)

\* every collaborator call returns, so the request thread always takes its
\* next step, and the AI analysis thread ends; nothing is assumed about the
\* word-cloud thread
FairRun ==
    /\ SpecOne
    /\ \A r \in Requests :
          /\ WF_vars(HandlerStep(r))
          /\ WF_vars(\E ok \in BOOLEAN : AiFinish(r, ok))

\* C17: a run that has entered the execution loop eventually returns, and a
\* terminal status is stored when it does.
C17_RunTerminates ==
    \A r \in Requests :
        (pc[r] \in LoopPCs)
            ~> (pc[r] = "respond" /\ db_status \in TerminalStatuses
                  /\ TerminalCount(persisted[r]) >= 1)

\* a run has returned after all six stages
C17_Witness ==
    \E r \in Requests :
        /\ pc[r] = "respond"
        /\ Entered(r)
        /\ persisted[r] = <<"stage1", "stage2", "stage3", "stage4", "stage5",
                            "stage6", "completed">>
        /\ db_status = "completed"

(***************************************************************************)
(* Properties of the finalization                                          *)
(***************************************************************************)
\* C18: a run is at cleanup_temp_files only when its insert succeeded,
\* 'completed' is the status it persisted last and its read-back has
\* returned 'completed'; an artifact disappears only in the cleanup step of
\* such a run, which then returns 'completed'; no step of a run on a fatal
\* path changes an artifact.
C18_FinalizationOnlyAfterSuccess ==
    /\ [](\A r \in Requests :
            pc[r] \in {"cleanup", "finish"} =>
                /\ "stage6" \in ended[r]
                /\ failures[r] \cap {"insert", "readback"} = {}
                /\ persisted[r][Len(persisted[r])] = "completed"
                /\ db_status = "completed")
    /\ [][\A s \in FileStages :
            (files[s].exists /\ ~files'[s].exists) =>
                \E r \in Requests : pc[r] = "cleanup" /\ pc'[r] = "finish"]_vars
    /\ [][\A r \in Requests :
            /\ pc[r] \in FatalPCs => files' = files
            /\ (pc[r] = "finish" /\ pc'[r] # pc[r]) => response'[r] = "completed"
       ]_vars

\* a run that failed after 'completed' was persisted has returned 'failed'
\* and its five artifacts are in place
C18_Witness ==
    \E r \in Requests :
        /\ pc[r] = "respond"
        /\ response[r] = "failed"
        /\ "completed" \in SeqToSet(persisted[r])
        /\ \A s \in FileStages : files[s].exists

\* C19: after the cleanup of a run in which no os.remove raised, the Resume
\* Planner finds no artifact: stage1 is incomplete, completed_stages is
\* empty and resume_from is stage1.
C19_NothingLeftAfterFinalization ==
    \A r \in Requests :
        (pc[r] = "finish" /\ undeleted[r] = {}) =>
            LET p == determine_resume_point(files, db_status)
            IN  /\ ~p.stage_details["stage1"]
                /\ p.completed_stages = <<>>
                /\ p.resume_from = "stage1"

\* C20: when an os.remove of the cleanup raised, the other targets are gone,
\* the stored status is still 'completed', and the run releases the registry
\* entry and returns 'completed'.
C20_RemoveErrorsAreIgnored ==
    \A r \in Requests :
        undeleted[r] # {} =>
            /\ pc[r] \in {"finish", "respond"}
            /\ \A s \in FileStages \ undeleted[r] : ~TargetExists(files, s)
            /\ \A s \in undeleted[r] : TargetExists(files, s)
            /\ db_status = "completed"
            /\ persisted[r][Len(persisted[r])] = "completed"
            /\ pc[r] = "respond" =>
                  /\ response[r] = "completed"
                  /\ ~is_actively_processing(ACTIVE_PROCESSING, esg_id)

\* a run has returned 'completed' although the P1 JSON could not be removed
C20_Witness ==
    \E r \in Requests :
        /\ pc[r] = "respond"
        /\ undeleted[r] = {"stage2"}
        /\ files["stage2"].exists
        /\ ~files["stage3"].exists
        /\ response[r] = "completed"

(***************************************************************************)
(* Properties of resumption (specification SpecRestart)                    *)
(***************************************************************************)
\* C21: an approved request that read a stored status 'failed' or
\* stage1..stage6 takes as resume_from the earliest incomplete stage of the
\* artifacts on disk, whatever the stored status is; the artifacts and the
\* stored status are as they were when the run enters its first stage, and
\* the first stage the run executes, and the first status it persists, is
\* that resume_from.
C21_ResumeAtPlannedStage ==
    /\ [][\A r \in Requests :
            (/\ pc[r] = "prepare"
             /\ pc'[r] = "mark"
             /\ result_status[r] \in PROCESSING_STATES_FOR_RESUME) =>
                /\ resume_from'[r] = EarliestIncomplete(files)
                /\ UNCHANGED shared]_vars
    /\ [](\A r \in Requests :
            /\ (/\ pc[r] \in {"mark"} \cup LoopPCs
                /\ ran[r] = <<>>
                /\ db_status \in PROCESSING_STATES_FOR_RESUME) =>
                   resume_from[r] = EarliestIncomplete(files)
            /\ ran[r] # <<>> =>
                   /\ ran[r][1] = resume_from[r]
                   /\ persisted[r][1] = resume_from[r])

\* a run is about to enter stage 3, its resume_from, while the stored status
\* left by the interrupted run is 'stage5'
C21_Witness ==
    \E r \in Requests :
        /\ pc[r] = "stage3"
        /\ resume_from[r] = "stage3"
        /\ ran[r] = <<>>
        /\ db_status = "stage5"

C23_InvalidIsIncompleteNotAnError ==
    plan.called =>
        /\ ~plan.raised
        /\ \A s \in JsonStages :
              /\ plan.result.stage_details[s] <=> ValidArtifact(plan.fs, s)
              /\ plan.fs[s] \in {Absent, Garbage, Json("scalar", 0),
                                  Json("list", 0), Json("dict", 0)} =>
                    /\ ~plan.result.stage_details[s]
                    /\ s \notin SeqToSet(plan.result.completed_stages)

\* a call has returned on an unparseable P1 JSON, a scalar news JSON, an
\* empty P2 list and no P3 JSON, and reports the four stages incomplete
C23_Witness ==
    /\ plan.called
    /\ ~plan.raised
    /\ plan.fs["stage1"] = Pdf
    /\ plan.fs["stage2"] = Garbage
    /\ plan.fs["stage3"] = Json("scalar", 0)
    /\ plan.fs["stage4"] = Json("list", 0)
    /\ plan.fs["stage5"] = Absent
    /\ plan.result.completed_stages = <<"stage1">>
    /\ plan.result.resume_from = "stage2"

StartBy(r) == pc'[r] = "reg_run" /\ pc[r] # "reg_run"

\* a mark_processing_end call of thread r returns in this step
EndReturnsBy(r) == pc'[r] \in {"reg_ended", "reg_ended2"} /\ pc'[r] # pc[r]

\* C26: right after mark_processing_start(id) the id is active, with the
\* time of this call as its timestamp, whether or not it had an entry, and
\* the other entries are as before; right after a mark_processing_end(id)
\* has returned the id is not active; an id is active only if a
\* mark_processing_start was made for it, and asking about an id that was
\* never started answers false.
C26_StartEndIsActive ==
    /\ [][\A r \in Requests :
            /\ StartBy(r) =>
                  /\ is_actively_processing(ACTIVE_PROCESSING', job'[r])
                  /\ ACTIVE_PROCESSING'[job'[r]] = now
                  /\ DOMAIN ACTIVE_PROCESSING' = DOMAIN ACTIVE_PROCESSING \cup {job'[r]}
                  /\ \A id \in DOMAIN ACTIVE_PROCESSING \ {job'[r]} :
                        ACTIVE_PROCESSING'[id] = ACTIVE_PROCESSING[id]
            /\ EndReturnsBy(r) =>
                  ~is_actively_processing(ACTIVE_PROCESSING', job[r])
       ]_vars
    /\ [](/\ \A id \in DOMAIN ACTIVE_PROCESSING :
                id \in JobIds /\ ACTIVE_PROCESSING[id] \in 0..(now - 1)
          /\ now = 0 => \A id \in JobIds :
                ~is_actively_processing(ACTIVE_PROCESSING, id)
          /\ ~is_actively_processing(ACTIVE_PROCESSING, "19990000"))

\* the entry of a job was written by the third start although the first
\* start was for the same job and no end was called: one entry, overwritten
C26_Witness ==
    /\ now = 3
    /\ DOMAIN ACTIVE_PROCESSING = {esg_id}
    /\ ACTIVE_PROCESSING[esg_id] = 2
    /\ \A r \in Requests : pc[r] = "reg_run" /\ job[r] = esg_id

\* C27: a mark_processing_end call for an id without an entry returns
\* normally and changes no entry; applied to any registry, a second
\* mark_processing_end right after the first changes nothing more.
C27_EndOfUntrackedIsNoOp ==
    /\ [][\A r \in Requests :
            (/\ pc[r] \in {"reg_run", "reg_ended"}
             /\ pc'[r] \notin {pc[r], "idle", "reg_run"}
             /\ ~is_actively_processing(ACTIVE_PROCESSING, job[r])) =>
                /\ EndReturnsBy(r)
                /\ ACTIVE_PROCESSING' = ACTIVE_PROCESSING
       ]_vars
    /\ [](\A id \in JobIds :
            LET once == mark_processing_end(ACTIVE_PROCESSING, id)
            IN  /\ mark_processing_end(once, id) = once
                /\ ~is_actively_processing(ACTIVE_PROCESSING, id) =>
                      once = ACTIVE_PROCESSING)

\* a thread has called mark_processing_end twice in a row: the second call
\* found no entry and returned, and the entry of the other job is in place
C27_Witness ==
    /\ pc["r1"] = "reg_ended2"
    /\ job["r1"] = esg_id
    /\ pc["r2"] = "reg_run"
    /\ job["r2"] # esg_id
    /\ DOMAIN ACTIVE_PROCESSING = {job["r2"]}

\* C28: the entry of a job is removed, and its timestamp is changed, only
\* by a step of a thread whose run is for that job: the start and end
\* calls of a run for another job leave it as it is, so that a job marked
\* active stays active until an end call for that same job.
C28_OtherJobsUntouched ==
    [][\A id \in JobIds :
          (/\ is_actively_processing(ACTIVE_PROCESSING, id)
           /\ \/ ~is_actively_processing(ACTIVE_PROCESSING', id)
              \/ ACTIVE_PROCESSING'[id] # ACTIVE_PROCESSING[id]) =>
              \E r \in Requests :
                  /\ pc'[r] # pc[r]
                  /\ job'[r] = id
                  /\ StartBy(r) \/ pc[r] \in {"reg_del", "reg_del2"}
    ]_vars

\* the run of r1 is between its start and its end while r2 has started and
\* ended a run for the other job: the entry of r1's job is as r1 wrote it
C28_Witness ==
    /\ pc["r1"] = "reg_run"
    /\ job["r1"] = esg_id
    /\ pc["r2"] = "reg_ended"
    /\ job["r2"] # esg_id
    /\ now = 2
    /\ DOMAIN ACTIVE_PROCESSING = {esg_id}
    /\ ACTIVE_PROCESSING[esg_id] = 0

(***************************************************************************)
(* Properties of the stored status during a run (specification SpecOne)    *)
(***************************************************************************)
\* the stage whose collaborator the request thread is calling, "none" when
\* it is calling none
CallingFor(r) ==
    CASE pc[r] = "s1_run" -> "stage1"
      [] pc[r] = "s3_run" -> "stage3"
      [] pc[r] = "s4_run" -> "stage4"
      [] pc[r] = "s5_run" -> "stage5"
      [] pc[r] = "s6_insert" -> "stage6"
      [] OTHER -> "none"

\* the run itself persisted st, and it is the stored status
StoredByRun(r, st) ==
    /\ db_status = st
    /\ persisted[r] # <<>>
    /\ persisted[r][Len(persisted[r])] = st

\* C29 as stated: while a collaborator of stage N is executing (the
\* download, either thread of stage 2, the news search, the re-verification,
\* the source check, the database insert), the stored status is N.
C29_CollaboratorRunsUnderItsStatus ==
    \A r \in Requests :
        /\ CallingFor(r) # "none" => db_status = CallingFor(r)
        /\ ai_thread[r] = "running" => db_status = "stage2"
        /\ WordCloudAlive(r) => db_status = "stage2"

\* C29 amended: the status N is persisted by the run before the work of
\* stage N starts and is the stored status while the download, the AI
\* analysis thread, the news search, the re-verification, the source check
\* or the database insert is executing; the word-cloud thread executes under
\* 'stage2' until the run enters its next stage, and a word-cloud thread
\* that outlives the bounded join executes under the later statuses.
C29_CallRunsUnderItsStatus ==
    \A r \in Requests :
        /\ CallingFor(r) # "none" => StoredByRun(r, CallingFor(r))
        /\ ai_thread[r] = "running" => StoredByRun(r, "stage2")
        /\ wordcloud_thread[r] = "running" => StoredByRun(r, "stage2")
        /\ wordcloud_thread[r] = "detached" =>
              /\ "stage2" \in SeqToSet(persisted[r])
              /\ db_status \in {"stage3", "stage4", "stage5", "stage6",
                                 "completed", "failed"}

\* the news search is executing under 'stage3' while the word-cloud thread
\* that the bounded join gave up on is still executing
C29_Witness ==
    \E r \in Requests :
        /\ pc[r] = "s3_run"
        /\ wordcloud_thread[r] = "detached"
        /\ StoredByRun(r, "stage3")

(***************************************************************************)
(* Properties of a request that finds the job active (specification        *)
(* SpecPoll)                                                               *)
(***************************************************************************)
InitPoll ==
    /\ InitCommon
    /\ files = NoFiles
    /\ workers = Requests
    /\ budget = MaxRequestsPoll

\* thread r1 serves requests of any kind; thread r2 serves the requests
\* without auto_fetch with which the page asks for the state of the job
NextPoll ==
    \/ \E af \in BOOLEAN : BeginRequest("r1", af)
    \/ BeginRequest("r2", FALSE)
    \/ \E r \in Requests : Respond(r)
    \/ \E r \in Requests : HandlerStep(r)
    \/ \E r \in Requests, o \in WordCloudOutcomes : WordCloudFinish(r, o)
    \/ \E r \in Requests, ok \in BOOLEAN : AiFinish(r, ok)

SpecPoll == InitPoll /\ [][NextPoll]_vars

\* C30: a request that read a processing state and finds the id in the
\* registry returns 'processing' in its next step, and that step changes
\* no artifact, no stored status, no registry entry or timestamp, no thread
\* and nothing of the run of the other request.
C30_ActiveJobIsOnlyReported ==
    [][\A r \in Requests :
          (/\ pc[r] = "route"
           /\ pc'[r] # pc[r]
           /\ result_status[r] \in PROCESSING_STATES
           /\ is_actively_processing(ACTIVE_PROCESSING, esg_id)) =>
              /\ pc'[r] = "respond"
              /\ response'[r] = "processing"
              /\ UNCHANGED <<files, db_status, ACTIVE_PROCESSING, threads,
                             persisted, ran, ended, resume_from>>
              /\ \A o \in Requests \ {r} : pc'[o] = pc[o]
    ]_vars

\* a request has returned 'processing' while the run of the other request,
\* started before it arrived, is calling the news search
C30_Witness ==
    \E r \in Requests, o \in Requests :
        /\ pc[r] = "respond"
        /\ response[r] = "processing"
        /\ persisted[r] = <<>>
        /\ pc[o] = "s3_run"
        /\ db_status = "stage3"
        /\ now = 2
        /\ is_actively_processing(ACTIVE_PROCESSING, esg_id)
        /\ ACTIVE_PROCESSING[esg_id] = 1

(***************************************************************************)
(* Properties of the requests that do not approve the analysis             *)
(* (specification SpecPoll)                                                *)
(***************************************************************************)
UnapprovedResponses ==
    {"completed", "processing", "resume_needed", "validation_needed", "not_found"}

C32_CompletedOnlyWithValidP3 ==
    \A r \in Requests :
        pc[r] = "readback" => check_stage_completion(files, "stage5")

(***************************************************************************)
(* Two clients approve the analysis of one job at about the same time      *)
(***************************************************************************)
MaxRequestsRace == 2

InitRace ==
    /\ InitCommon
    /\ files = NoFiles
    /\ workers = Requests
    /\ budget = MaxRequestsRace

\* both threads serve requests with auto_fetch true
NextRace ==
    \/ \E r \in Requests : BeginRequest(r, TRUE)
    \/ \E r \in Requests : Respond(r)
    \/ \E r \in Requests : HandlerStep(r)
    \/ \E r \in Requests, o \in WordCloudOutcomes : WordCloudFinish(r, o)
    \/ \E r \in Requests, ok \in BOOLEAN : AiFinish(r, ok)

SpecRace == InitRace /\ [][NextRace]_vars

\* C33: a request that passed the routing with a stored status that is
\* neither 'failed' nor a stage name (no record, or 'processing') either
\* goes on with resume_from = 'stage1', whatever artifacts are on disk, and
\* then the record of the job exists, or returns 'error'; in both cases the
\* step stores no stage status, runs no stage and touches no artifact, and an
\* aborted request leaves the stored status as it was.
C33_FirstRunStartsAtStage1 ==
    [][\A r \in Requests :
          (/\ pc[r] = "prepare"
           /\ result_status[r] \notin PROCESSING_STATES_FOR_RESUME
           /\ pc'[r] # pc[r]) =>
              /\ UNCHANGED <<files, ACTIVE_PROCESSING, history>>
              /\ \/ /\ pc'[r] = "mark"
                    /\ resume_from'[r] = "stage1"
                    /\ db_status' # "none"
                 \/ /\ pc'[r] = "respond"
                    /\ response'[r] = "error"
                    /\ UNCHANGED <<db_status, resume_from>>
    ]_vars

\* one client's run has ended and left the PDF of stage1 on disk, so that
\* the planner would skip stage1; the request of the other client, which
\* read the status before that run stored its first stage, has nevertheless
\* entered stage1
C33_Witness ==
    \E r \in Requests :
        /\ pc[r] = "s1_run"
        /\ resume_from[r] = "stage1"
        /\ ran[r] = <<"stage1">>
        /\ check_stage_completion(files, "stage1")
        /\ determine_resume_point(files, db_status).resume_from # "stage1"
        /\ db_status = "stage1"
        /\ \A o \in Requests \ {r} : pc[o] \in {"respond", "done"}

(***************************************************************************)
(* ESGReportAnalyzer.run (src/src/gemini_api.py)                           *)
(***************************************************************************)
\* the attempts made so far
attempt == Len(analyzer.trace)

\* upload_file_to_gemini and _build_prompt, before the loop: an exception of
\* either leaves run as it is
RunStart(ok) ==
    /\ analyzer.state = "idle"
    /\ analyzer' = [analyzer EXCEPT !.state = IF ok THEN "loop" ELSE "raised"]
    /\ UNCHANGED <<shared, server, pc, locals, threads, response, history,
                   plan, job, verifier, user_sessions, chat>>

\* 'if best_result is None or total_items < len(best_result)'
KeepBest(best, parsed_data) ==
    IF ~best.set \/ parsed_data.n < best.data.n
      THEN [set |-> TRUE, data |-> parsed_data]
      ELSE best

\* one pass of the loop body: the call, the parse, the test of the output,
\* the write and the except clause
Attempt(reply) ==
    /\ analyzer.state = "loop"
    /\ ReplyIsList(reply)
    /\ LET no == attempt + 1
           last == no >= Len(retry_configs)
           parsed_data == ParsedData(reply.n, reply.u, reply.enc, no)
           is_abnormal == reply.kind = "parsed" /\ _is_abnormal_output(parsed_data)
           best == IF is_abnormal THEN KeepBest(analyzer.best_result, parsed_data)
                   ELSE analyzer.best_result
           retried == is_abnormal /\ ~last
           to_save == IF is_abnormal THEN best.data ELSE parsed_data
           writes == reply.kind = "parsed" /\ ~retried
           raised == reply.kind = "raise" \/ (writes /\ ~to_save.enc)
           entry == [config |-> retry_configs[no],
                     items |-> reply.n,
                     reply |-> IF reply.kind = "raise" THEN "raise"
                               ELSE IF is_abnormal THEN "abnormal" ELSE "normal",
                     write |-> IF ~writes THEN "none"
                               ELSE IF to_save.enc THEN "done" ELSE "raised"]
       IN analyzer' =
            [state |-> IF raised THEN (IF last THEN "RuntimeError" ELSE "loop")
                       ELSE IF retried THEN "loop" ELSE "returned",
             trace |-> Append(analyzer.trace, entry),
             best_result |-> best,
             output |-> IF ~writes THEN analyzer.output
                        ELSE IF to_save.enc THEN Saved(to_save) ELSE Truncated]
    /\ UNCHANGED <<shared, server, pc, locals, threads, response, history,
                   plan, job, verifier, user_sessions, chat>>

InitAnalyzer ==
    /\ InitCommon
    /\ files = NoFiles
    /\ workers = {}
    /\ budget = 0

NextAnalyzer ==
    \/ \E ok \in BOOLEAN : RunStart(ok)
    \/ \E reply \in Replies : Attempt(reply)

SpecAnalyzer == InitAnalyzer /\ [][NextAnalyzer]_vars

\* C34: run makes at most three calls, with the configurations of
\* retry_configs in their order; no attempt follows one whose output parsed
\* and was not abnormal; the output file is written to in at most one
\* attempt, and no attempt follows one that wrote to it.
C34_ThreeCallsThenOneWrite ==
    LET t == analyzer.trace
    IN /\ Len(t) <= 3
       /\ \A i \in 1..Len(t) : t[i].config = retry_configs[i]
       /\ \A i \in 1..Len(t) : t[i].reply = "normal" => i = Len(t)
       /\ Cardinality({i \in 1..Len(t) : t[i].write # "none"}) <= 1
       /\ \A i \in 1..Len(t) : t[i].write # "none" => i = Len(t)

\* the attempts whose reply parsed and was abnormal
AbnormalAttempts == {i \in 1..attempt : analyzer.trace[i].reply = "abnormal"}

\* C35: when run returns from an attempt whose output was abnormal, that is
\* the third attempt and the file holds the abnormal output with the fewest
\* items, the earliest of them on a tie; when the third attempt raises, run
\* raises RuntimeError and there is no output file, whatever best_result
\* holds.
C35_BestAbnormalOrNothing ==
    LET t == analyzer.trace
    IN /\ (analyzer.state = "returned" /\ t[Len(t)].reply = "abnormal") =>
            /\ Len(t) = 3
            /\ analyzer.output.state = "json"
            /\ analyzer.output.data.by \in AbnormalAttempts
            /\ \A i \in AbnormalAttempts :
                  /\ analyzer.output.data.n <= t[i].items
                  /\ analyzer.output.data.n = t[i].items =>
                        analyzer.output.data.by <= i
       /\ (Len(t) = 3 /\ (t[3].reply = "raise" \/ t[3].write = "raised")) =>
            /\ analyzer.state = "RuntimeError"
            /\ analyzer.output = NoOutput

(***************************************************************************)
(* verify_evidence_sources (src/src/pplx_api.py)                           *)
(***************************************************************************)
\* the counters and the list the loop starts with
LoopStart == [processed_data |-> <<>>, verified_count |-> 0, updated_count |-> 0,
              failed_count |-> 0, perplexity_calls |-> 0, threw |-> FALSE]

\* variant: an item without a URL is kept in the output as it was read
VerifyItemKeepsAll(acc, kind) ==
    IF acc.threw THEN acc
    ELSE IF kind = "throws" THEN [acc EXCEPT !.threw = TRUE]
    ELSE IF StrippedUrl(kind) = ""
      THEN [acc EXCEPT !.processed_data = Append(@, Unverified(kind))]
    ELSE IF kind = "valid"
      THEN [acc EXCEPT !.verified_count = @ + 1,
                       !.processed_data = Append(@, Verified("original"))]
    ELSE IF kind = "dead_found"
      THEN [acc EXCEPT !.perplexity_calls = @ + 1,
                       !.updated_count = @ + 1,
                       !.processed_data = Append(@, Verified("alternative"))]
    ELSE [acc EXCEPT !.perplexity_calls = @ + 1, !.failed_count = @ + 1]

\* one pass of the loop over the items; an exception ends the loop
VerifyItem(acc, kind) ==
    IF acc.threw THEN acc
    ELSE IF kind = "throws" THEN [acc EXCEPT !.threw = TRUE]
    ELSE IF StrippedUrl(kind) = "" THEN acc
    ELSE IF kind = "valid"
      THEN [acc EXCEPT !.verified_count = @ + 1,
                       !.processed_data = Append(@, Verified("original"))]
    ELSE IF kind = "dead_found"
      THEN [acc EXCEPT !.perplexity_calls = @ + 1,
                       !.updated_count = @ + 1,
                       !.processed_data = Append(@, Verified("alternative"))]
    ELSE [acc EXCEPT !.perplexity_calls = @ + 1, !.failed_count = @ + 1]

RECURSIVE VerifyItems(_, _)
VerifyItems(data, acc) ==
    IF data = <<>> THEN acc
    ELSE VerifyItems(Tail(data), VerifyItem(acc, Head(data)))

\* 'except Exception as e' around the whole body
verify_evidence_sources_catches == {"Exception"}

\* the except clause: {'success': False, 'message': ..., 'error': str(e)};
\* an exception that no clause catches leaves the function
Failure(error) ==
    [NoResult EXCEPT !.error = error,
                     !.raised = error = "exception"
                                /\ "Exception" \notin verify_evidence_sources_catches]

\* the whole call: the result it returns, the P3 JSON it leaves and whether
\* an exception reached the except clause; write_raises tells whether
\* json.dump raises while the output is written
verify_evidence_sources_result(p2, p3, force_regenerate, write_raises) ==
    IF p2.state = "absent"
      THEN [result |-> Failure("Input file not found"), p3 |-> p3, threw |-> FALSE]
    ELSE IF p3.state # "absent" /\ ~force_regenerate
      THEN [result |-> [NoResult EXCEPT !.success = TRUE, !.skipped = TRUE,
                                        !.statistics = TRUE],
            p3 |-> p3, threw |-> FALSE]
    ELSE IF p2.state # "list"
      THEN [result |-> Failure("exception"), p3 |-> p3, threw |-> TRUE]
    ELSE LET acc == VerifyItems(p2.items, LoopStart)
         IN IF acc.threw
              THEN [result |-> Failure("exception"), p3 |-> p3, threw |-> TRUE]
            ELSE IF write_raises
              THEN [result |-> Failure("exception"), p3 |-> BrokenJson,
                    threw |-> TRUE]
            ELSE [threw |-> FALSE,
                  result |-> [NoResult EXCEPT
                                 !.success = TRUE, !.statistics = TRUE,
                                 !.processed_items = Len(acc.processed_data),
                                 !.verified_count = acc.verified_count,
                                 !.updated_count = acc.updated_count,
                                 !.failed_count = acc.failed_count],
                  p3 |-> JsonList(acc.processed_data)]

\* stage 4 writes the P2 JSON, or leaves a file that cannot be parsed; the
\* record of the last call is dropped
WriteP2(file) ==
    /\ verifier.calls < MaxVerifyCalls
    /\ verifier.p2 = NoJson
    /\ file # NoJson
    /\ verifier' = [NoVerify EXCEPT !.p2 = file, !.p3 = verifier.p3,
                                    !.calls = verifier.calls]
    /\ UNCHANGED <<shared, server, pc, locals, threads, response, history,
                   plan, job, analyzer, user_sessions, chat>>

\* the P2 JSON is deleted (cleanup_temp_files, or by hand)
DeleteP2 ==
    /\ verifier.calls < MaxVerifyCalls
    /\ verifier.p2 # NoJson
    /\ verifier' = [NoVerify EXCEPT !.p3 = verifier.p3, !.calls = verifier.calls]
    /\ UNCHANGED <<shared, server, pc, locals, threads, response, history,
                   plan, job, analyzer, user_sessions, chat>>

\* verify_evidence_sources(year, company_code, force_regenerate)
VerifyEvidenceSources(force_regenerate, write_raises) ==
    /\ verifier.calls < MaxVerifyCalls
    /\ LET out == verify_evidence_sources_result(verifier.p2, verifier.p3,
                                                 force_regenerate, write_raises)
       IN verifier' = [p2 |-> verifier.p2,
                       p3 |-> out.p3,
                       calls |-> verifier.calls + 1,
                       before |-> [p2 |-> verifier.p2, p3 |-> verifier.p3,
                                   force_regenerate |-> force_regenerate],
                       threw |-> out.threw,
                       called |-> TRUE,
                       result |-> out.result]
    /\ UNCHANGED <<shared, server, pc, locals, threads, response, history,
                   plan, job, analyzer, user_sessions, chat>>

P2Files == {BrokenJson} \cup {JsonList(q) : q \in SeqsUpTo(ItemKinds, MaxP2Items)}

InitVerifier ==
    /\ InitCommon
    /\ files = NoFiles
    /\ workers = {}
    /\ budget = 0

NextVerifier ==
    \/ \E file \in P2Files : WriteP2(file)
    \/ DeleteP2
    \/ \E f \in BOOLEAN, w \in BOOLEAN : VerifyEvidenceSources(f, w)

SpecVerifier == InitVerifier /\ [][NextVerifier]_vars

\* the items of a P2 JSON that have a URL
WithUrl(items) == {i \in 1..Len(items) : StrippedUrl(items[i]) # ""}

\* C36: a call of verify_evidence_sources returns a result and raises
\* nothing. Without the input file it returns success false and leaves the
\* output as it was (none is created); when a step throws it returns
\* success false; with the input present, the output present and no
\* force_regenerate it returns success with skipped and leaves the output
\* as it was; in every other case it returns success and the output is a
\* list in which every item has a non-empty URL and is_verified set,
\* processed_items is the length of that list and equals verified_count +
\* updated_count, and the three counters together count the items that
\* have a URL.
C36_SourceCheckNeverRaises ==
    verifier.called =>
        LET b == verifier.before
            res == verifier.result
            out == verifier.p3
        IN /\ ~res.raised
           /\ res.success \in BOOLEAN
           /\ IF b.p2.state = "absent"
                THEN ~res.success /\ out = b.p3 /\ res.error = "Input file not found"
              ELSE IF verifier.threw
                THEN ~res.success /\ res.error # "none"
              ELSE IF b.p3.state # "absent" /\ ~b.force_regenerate
                THEN res.success /\ res.skipped /\ out = b.p3
              ELSE /\ res.success /\ ~res.skipped /\ res.error = "none"
                   /\ out.state = "list"
                   /\ \A i \in 1..Len(out.items) :
                         /\ out.items[i].external_evidence_url # ""
                         /\ out.items[i].is_verified = "True"
                   /\ res.processed_items = Len(out.items)
                   /\ res.processed_items = res.verified_count + res.updated_count
                   /\ res.verified_count + res.updated_count + res.failed_count
                         = Cardinality(WithUrl(b.p2.items))

\* a forced call on a P2 JSON with an item without URL and an item whose URL
\* was replaced has rewritten an existing output with the one item kept
C36_Witness ==
    /\ verifier.called
    /\ verifier.before.force_regenerate
    /\ verifier.before.p3.state = "list"
    /\ verifier.before.p2 = JsonList(<<"no_url", "dead_found">>)
    /\ verifier.result.success
    /\ verifier.result.updated_count = 1
    /\ verifier.p3 = JsonList(<<Verified("alternative")>>)

(***************************************************************************)
(* LINE bot (src/app_line.py): handle_message and handle_postback          *)
(***************************************************************************)
\* what the database lookup of a handler does: it raises, finds nothing,
\* finds the row of the queried code, or (search by name) finds one company,
\* one row without a code, or several companies; for a postback "row" is a
\* non-empty list of years or a score
DbOutcomes ==
    {[kind |-> k, code |-> ""] : k \in {"error", "none", "row", "blank", "many"}}
    \cup {[kind |-> "one", code |-> c] : c \in Companies}

Reply(kind) == [NoReply EXCEPT !.kind = kind]

\* the session a lock stores
LockedSession(code) ==
    [state |-> "LOCKED", company_code |-> code, company_name |-> CompanyName(code)]

\* variant of the lock: the fields of the old session are kept
LockKeepsSession(sessions, user_id, code) ==
    Store(sessions, user_id, DictMerge(SessionOf(sessions, user_id), LockedSession(code)))

\* user_sessions[user_id] = {"state": "LOCKED", "company_code": ...,
\* "company_name": ...}
Lock(sessions, user_id, code) == Store(sessions, user_id, LockedSession(code))

\* the event is recorded with its reply; a lock starts a new record of the
\* company and the year of the user
Record(event, reply, locked_code, picked_year) ==
    chat' = [event |-> event, reply |-> reply, before |-> user_sessions,
             locked |-> IF locked_code # ""
                          THEN [chat.locked EXCEPT ![event.user] = locked_code]
                          ELSE chat.locked,
             picked |-> IF locked_code # ""
                          THEN [chat.picked EXCEPT ![event.user] = -1]
                        ELSE IF picked_year # -1
                          THEN [chat.picked EXCEPT ![event.user] = picked_year]
                          ELSE chat.picked]

\* handle_message
HandleMessage(user_id, text, db) ==
    LET event == [NoEvent EXCEPT !.type = "message", !.user = user_id, !.text = text]
        norm == normalize(text)
        sess == SessionOf(user_sessions, user_id)
        state == sess.state
    IN /\ IF text = PurposeText
            THEN UNCHANGED user_sessions /\ Record(event, Reply("purpose"), "", -1)
          ELSE IF text = FlowText
            THEN UNCHANGED user_sessions /\ Record(event, Reply("flow"), "", -1)
          ELSE IF is_trigger_a(norm)
            THEN /\ user_sessions' = Store(user_sessions, user_id,
                                          DictMerge([state |-> "WAITING_COMPANY"], sess))
                 /\ Record(event, Reply("ask_company"), "", -1)
          ELSE IF looks_like_company_input(norm)
            THEN IF IsCode4(norm)
                   THEN /\ db.kind \in {"error", "none", "row"}
                        /\ db.kind = "row" => norm \in Companies
                        /\ IF db.kind = "error"
                             THEN UNCHANGED user_sessions
                                  /\ Record(event, Reply("db_error"), "", -1)
                           ELSE IF db.kind = "none"
                             THEN UNCHANGED user_sessions
                                  /\ Record(event, Reply("not_found"), "", -1)
                           ELSE /\ user_sessions' = Lock(user_sessions, user_id, norm)
                                /\ Record(event, [Reply("locked") EXCEPT !.code = norm],
                                          norm, -1)
                   ELSE /\ db.kind # "row"
                        /\ IF db.kind = "error"
                             THEN UNCHANGED user_sessions
                                  /\ Record(event, Reply("db_error"), "", -1)
                           ELSE IF db.kind = "one"
                             THEN /\ user_sessions' = Lock(user_sessions, user_id, db.code)
                                  /\ Record(event, [Reply("locked") EXCEPT !.code = db.code],
                                            db.code, -1)
                           ELSE IF db.kind = "many"
                             THEN UNCHANGED user_sessions
                                  /\ Record(event, Reply("many"), "", -1)
                           ELSE UNCHANGED user_sessions
                                /\ Record(event, Reply("not_found"), "", -1)
          ELSE IF state = "IDLE"
            THEN UNCHANGED user_sessions /\ Record(event, Reply("hint_idle"), "", -1)
          ELSE UNCHANGED user_sessions /\ Record(event, NoReply, "", -1)
       /\ UNCHANGED <<shared, server, pc, locals, threads, response, history,
                      plan, job, analyzer, verifier>>

\* sess.get("selected_year") is set and true
HasYear(sess) == "selected_year" \in DOMAIN sess /\ sess.selected_year # 0

\* handle_postback
HandlePostback(user_id, data, db) ==
    LET event == [NoEvent EXCEPT !.type = "postback", !.user = user_id, !.data = data]
        sess == SessionOf(user_sessions, user_id)
        state == sess.state
    IN /\ db.kind \in {"error", "none", "row"}
       /\ IF state # "LOCKED"
            THEN UNCHANGED user_sessions /\ Record(event, Reply("not_locked"), "", -1)
          ELSE IF data.kind = "SHOW_YEARS"
            THEN /\ UNCHANGED user_sessions
                 /\ Record(event,
                           Reply(IF db.kind = "error" THEN "db_error"
                                 ELSE IF db.kind = "none" THEN "no_years"
                                 ELSE "choose_year"), "", -1)
          ELSE IF data.kind = "DASHBOARD"
            THEN /\ UNCHANGED user_sessions
                 /\ IF ~HasYear(sess)
                      THEN Record(event, Reply("need_year"), "", -1)
                      ELSE Record(event, [kind |-> "dashboard",
                                          year |-> sess.selected_year,
                                          code |-> sess.company_code], "", -1)
          ELSE IF data.kind = "BAD_YEAR"
            THEN UNCHANGED user_sessions /\ Record(event, Reply("bad_year"), "", -1)
          ELSE IF data.kind = "YEAR"
            THEN /\ user_sessions' = Store(user_sessions, user_id,
                                          DictMerge(sess, [selected_year |-> data.year]))
                 /\ Record(event,
                           [Reply(IF db.kind = "error" THEN "db_error"
                                  ELSE IF db.kind = "none" THEN "no_score"
                                  ELSE "score") EXCEPT !.year = data.year],
                           "", data.year)
          ELSE UNCHANGED user_sessions /\ Record(event, Reply("unsupported"), "", -1)
       /\ UNCHANGED <<shared, server, pc, locals, threads, response, history,
                      plan, job, analyzer, verifier>>

InitLine ==
    /\ InitCommon
    /\ files = NoFiles
    /\ workers = {}
    /\ budget = 0

NextLine ==
    \/ \E u \in Users, text \in Texts, db \in DbOutcomes : HandleMessage(u, text, db)
    \/ \E u \in Users, data \in PostbackData, db \in DbOutcomes : HandlePostback(u, data, db)

SpecLine == InitLine /\ [][NextLine]_vars

\* the session of the user of the last event, before that event
SessionBefore == SessionOf(chat.before, chat.event.user)

\* the last event was a message that is_trigger_a accepts
TriggerHandled ==
    /\ chat.event.type = "message"
    /\ chat.event.text \notin {PurposeText, FlowText}
    /\ is_trigger_a(normalize(chat.event.text))

\* C37: after a trigger message the session of the user is stored, its
\* state is WAITING_COMPANY, and every other field the session had before
\* is still there with its value.
C37_TriggerWaitsForCompany ==
    TriggerHandled =>
        LET u == chat.event.user
        IN /\ u \in DOMAIN user_sessions
           /\ user_sessions[u].state = "WAITING_COMPANY"
           /\ \A k \in DOMAIN SessionBefore \ {"state"} :
                 /\ k \in DOMAIN user_sessions[u]
                 /\ user_sessions[u][k] = SessionBefore[k]

\* C38: a postback that found the session in a state other than LOCKED
\* changed no session and was answered with the request to lock a company;
\* a lock leaves a session of exactly the state LOCKED and the company, with
\* no selected year; a Dashboard link is sent only for a postback that found
\* the session LOCKED, after a year was picked since the last lock of the
\* user, and it carries that year and the code of that lock.
C38_PostbacksNeedALock ==
    LET u == chat.event.user
    IN /\ (chat.event.type = "postback" /\ SessionBefore.state # "LOCKED") =>
             /\ user_sessions = chat.before
             /\ chat.reply.kind = "not_locked"
       /\ chat.reply.kind = "locked" =>
             /\ user_sessions[u] = LockedSession(chat.reply.code)
             /\ "selected_year" \notin DOMAIN user_sessions[u]
             /\ chat.picked[u] = -1
       /\ chat.reply.kind = "dashboard" =>
             /\ chat.event.type = "postback"
             /\ SessionBefore.state = "LOCKED"
             /\ chat.picked[u] # -1
             /\ chat.reply.year = chat.picked[u]
             /\ chat.locked[u] # ""
             /\ chat.reply.code = chat.locked[u]
             /\ user_sessions[u].company_code = chat.reply.code

\* a user who had picked a year for one company, locked another company and
\* picked a year again is sent the link of the second company and year
C38_Witness ==
    /\ chat.reply = [kind |-> "dashboard", year |-> 2024, code |-> "2330"]
    /\ chat.event.user = "u1"
    /\ chat.locked["u1"] = "2330"
    /\ "u2" \in DOMAIN user_sessions
    /\ user_sessions["u2"].state = "LOCKED"
    /\ user_sessions["u2"].company_code = "1102"
    /\ "selected_year" \in DOMAIN user_sessions["u2"]
    /\ user_sessions["u2"].selected_year = 2023

====
